---------------------------- MODULE Spec2Model ----------------------------
(***************************************************************************)
(* A model of the storage and concurrency core of the BusTub teaching      *)
(* database (fall 2022).  This part models the multi-granularity lock      *)
(* manager of src/src/concurrency/lock_manager.cpp: the table and row      *)
(* lock queues, the transactions' lock sets and states, the blocking       *)
(* LockTable / LockRow calls with their condition-variable waits, the      *)
(* unlock calls and the background deadlock detector.                      *)
(*                                                                         *)
(* Granularity.  Every lock-manager call works on a queue under that       *)
(* queue's latch from its first look at the queue to its return or to its  *)
(* cv_.wait, so a call is one step up to the wait, and each wake-up of a   *)
(* waiter (re-check, grant or unwind) is one more step.  The statements    *)
(* that UnlockTable and UnlockRow run after releasing the latch touch only *)
(* the calling transaction's own state and lock sets and are part of the   *)
(* same step.  One pass of the detector's loop body is one step.           *)
(***************************************************************************)
EXTENDS Integers, Sequences, FiniteSets, TLC

\* ------------------------------------------------------------------ bounds
NumTxns    == 3   \* transactions (threads) of the table-locking specification
NumRowTxns == 2   \* transactions that run in the table-and-row specification
NumTables  == 1
NumRows    == 1
NumDeadlockRows == 2   \* rows of the specification of the row deadlock
PoolSize   == 2   \* pool_size: frames of the buffer pool
ReplacerK  == 2   \* replacer_k: the k of LRU-K
MaxPages   == 3   \* page ids NewPage may allocate: 0 .. MaxPages - 1
MaxData    == 1   \* page contents: 0 (zeroed) .. MaxData
MaxPin     == 2   \* pins a page may carry at once
MaxAccess  == 4   \* accesses the buffer pool's replacer may record
ReplacerFrames == 4  \* num_frames of the replacer driven on its own
MaxStamp   == 5   \* accesses that replacer may record
HashKeys   == 5   \* keys of the hash table: 0 .. HashKeys - 1
HashValues == 2   \* values of the hash table: 0 .. HashValues - 1
BucketSize == 2   \* bucket_size of the hash table
NumTreeKeys   == 6  \* keys of the B+ tree: 1 .. NumTreeKeys
NumTreeValues == 2  \* values of the B+ tree: 1 .. NumTreeValues
MaxTreePages  == 10 \* pages NewPage may hand out to the B+ tree: ids 1 .. MaxTreePages
NumThreads    == 2  \* threads that call the B+ tree
MaxThreadKey  == 4  \* the threads share the keys 1 .. MaxThreadKey among them
NumStepKeys   == 4  \* keys 1 .. NumStepKeys of the caller that is seen at every latch
MaxIterKey    == 3  \* keys 1 .. MaxIterKey are inserted and removed beside an iterator
MaxIterPages  == 5  \* beside an iterator Insert is called while fewer pages were handed out
MaxScanEnds   == 2  \* times SeqScan::Next is let return false
NumScanRows   == 2  \* rows of the table that the SeqScanExecutor scans
MaxInserted   == 2  \* tuples the InsertExecutor puts into the table at most
LeafMaxSize     == 4  \* leaf_max_size is drawn from 2 .. LeafMaxSize
InternalMaxSize == 4  \* internal_max_size is drawn from 3 .. InternalMaxSize
NumDetectTxns   == 4  \* txn ids of a waits-for graph given to HasCycle: 1 .. NumDetectTxns
MaxChild        == 3  \* tuples the child of Sort and TopN gives at most
NumColumns      == 2  \* columns of a tuple
NumColumnValues == 2  \* values of a column: 0 .. NumColumnValues - 1
MaxOrderBys     == 2  \* entries of the order-by list at most
MaxN            == 2  \* the limit N of TopN: 0 .. MaxN

\* ---------------------------------------------------------------- constants
INVALID_TXN_ID == -1

Txns   == 1..NumTxns
RowTxns == 1..NumRowTxns
Tables == 1..NumTables
Rids   == 1..NumRows

\* The table a row lives in: the oid a caller hands to LockRow with the rid.
TableOf(rid) == ((rid - 1) % NumTables) + 1

LockModes == {"S", "X", "IS", "IX", "SIX"}
RowModes  == {"S", "X"}
IsolationLevels == {"READ_UNCOMMITTED", "READ_COMMITTED", "REPEATABLE_READ"}
TransactionStates == {"GROWING", "SHRINKING", "COMMITTED", "ABORTED"}
AbortReasons == {"LOCK_ON_SHRINKING", "LOCK_SHARED_ON_READ_UNCOMMITTED",
                 "UPGRADE_CONFLICT", "INCOMPATIBLE_UPGRADE",
                 "ATTEMPTED_INTENTION_LOCK_ON_ROW", "TABLE_LOCK_NOT_PRESENT",
                 "ATTEMPTED_UNLOCK_BUT_NO_LOCK_HELD",
                 "TABLE_UNLOCKED_BEFORE_UNLOCKING_ROWS"}

VARIABLES
  state,           \* state[t]: the transaction's TransactionState
  iso,             \* iso[t]: the transaction's isolation level (fixed at begin)
  table_lock_map_, \* oid -> LockRequestQueue, for the oids that have a queue
  row_lock_map_,   \* rid -> LockRequestQueue, for the rids that have a queue
  tls,             \* tls[t][mode]: the transaction's table lock set of that mode
  rls,             \* rls[t][mode]: its row lock set, as <<oid, rid>> pairs
  wait,            \* wait[t]: the queue the transaction's thread is blocked on
  notified,        \* waiters whose cv_ was notified since they last looked
  outcome          \* <<t, call, r>>: the last step ended that call of t by
                   \* throwing abort reason r or by returning false;
                   \* NoOutcome otherwise

\* The buffer pool manager instance, its replacer and the disk below it.
VARIABLES
  pages_,          \* frame_id -> Page: page_id_, pin_count_, is_dirty_, data_
  free_list_,      \* the free frame ids, front first
  page_table_,     \* page id -> frame id, for the resident pages
  replacer_,       \* the LRUKReplacer: frames_, curr_size_, current_timestamp_
  next_page_id_,   \* the next page id AllocatePage hands out
  disk,            \* page id -> the contents the disk manager holds
  written,         \* page id -> the contents the last holder that unpinned
                   \* it with is_dirty left in it (history); DELETED once
                   \* DeletePage has returned true for it
  result           \* <<call, argument, return value>> of the last pool or
                   \* replacer call

pool_vars == <<pages_, free_list_, page_table_, replacer_, next_page_id_, disk, written,
               result>>

\* The extendible hash table.
VARIABLES
  global_depth_,   \* the directory has 2^global_depth_ slots
  dir_,            \* slot -> the Bucket the slot's shared_ptr points to
  buckets,         \* the Bucket objects alive, by address: depth_ and list_
  num_buckets_,
  latest,          \* key -> the value of the last Insert of the key that no
                   \* Remove followed, ABSENT if there is none (history)
  found            \* <<call, key, return value, value found>> of the last call

hash_vars == <<global_depth_, dir_, buckets, num_buckets_, latest, found>>

\* The B+ tree.
VARIABLES
  leaf_max_size_,
  internal_max_size_,
  tree_pages,      \* page id -> the page of the tree in the buffer pool: the
                   \* node's fields, pin_count_ and the page latch
  allocated,       \* the pages NewPage has handed out to the tree so far
  root_page_id_,
  root_latch_,
  threads,         \* thread -> where it is in its call and its transaction's
                   \* page set and deleted page set
  fault,           \* the first failure of a call, NONE while there is none
  stored           \* key -> the value the tree is to hold, ABSENT if none
                   \* (history)

tree_vars == <<leaf_max_size_, internal_max_size_, tree_pages, allocated, root_page_id_, root_latch_,
               threads, fault, stored>>

\* The deadlock detector on a waits-for graph of its own.
VARIABLES
  waits_for_,      \* the edges <<t1, t2>>: t1 waits for t2
  txn_set_,        \* the transactions AddEdge has seen
  safe_set_,       \* the transactions FindCycle found on no cycle
  victim           \* the txn id the last HasCycle handed back, INVALID_TXN_ID
                   \* if it found no cycle

detect_vars == <<waits_for_, txn_set_, safe_set_, victim>>

\* The Sort and the TopN executor over the same child.
VARIABLES
  child_executor_, \* the tuples the child executor gives, in its order
  order_bys,       \* plan_->GetOrderBy(): <<type, column>> entries
  topn_n,          \* plan_->GetN() of the TopN plan
  topn_pc,         \* where TopNExecutor::Init is
  cursor,          \* the tuples TopN's child has given so far
  topn_q,          \* the priority queue of TopNExecutor::Init
  topn_tuples_,    \* tuples_ of the TopN executor
  sort_pc,         \* where SortExecutor::Init is
  sort_tuples_     \* tuples_ of the Sort executor

exec_vars == <<child_executor_, order_bys, topn_n, topn_pc, cursor, topn_q, topn_tuples_, sort_pc,
               sort_tuples_>>

\* History: the upgrades that were cancelled because their transaction was
\* aborted while it waited, as <<txn, kind, key>>.  No code reads it.
VARIABLE cancelled

\* An index iterator over the tree.
VARIABLES
  it_live,   \* an IndexIterator exists
  it_leaf,   \* leaf_: the page id of its leaf, NULL for nullptr
  it_pos     \* pos_

iter_vars == <<it_live, it_leaf, it_pos>>

\* A SeqScanExecutor and an InsertExecutor on one table, each in a
\* transaction of its own.
VARIABLES
  scan_pc,    \* where the scan stands: "new", "ready" between two calls,
              \* "Init" and "Next" while the call waits for its lock, "end"
              \* in the loop of Next at the end of the table, "thrown"
  iter_,      \* iter_: the tuples of the table it has passed
  lock_set,   \* lock_set of Next: the rids it has still to unlock
  returned,   \* the last call that returned: "Init", or Next with "true" or
              \* "false"; "none" before and from the next Init on
  scan_ends,  \* the times Next returned false
  first_,     \* first_ of the InsertExecutor
  table_,     \* tuples the InsertExecutor put into the table heap
  insert_ret  \* what its last Next returned: "none", "true", "false"

query_vars == <<scan_pc, iter_, lock_set, returned, scan_ends, first_, table_, insert_ret>>

\* What is neither the lock manager's nor the buffer pool's.
other_vars == <<hash_vars, tree_vars, detect_vars, exec_vars, iter_vars, query_vars>>
rest_vars == <<other_vars, cancelled>>
aux_vars == <<cancelled, iter_vars, query_vars>>

\* The lock manager's and the transactions'.
lock_vars == <<state, iso, table_lock_map_, row_lock_map_, tls, rls, wait, notified, outcome>>

vars == <<state, iso, table_lock_map_, row_lock_map_, tls, rls, wait, notified, outcome,
          pool_vars, rest_vars>>

\* A LockRequestQueue: request_queue_ and upgrading_ (cv_ is `notified').
EmptyQueue == [rq |-> <<>>, upgrading |-> INVALID_TXN_ID]

\* A LockRequest as its constructor leaves it: not granted.
LockRequest(t, m, o) == [txn |-> t, mode |-> m, oid |-> o, granted |-> FALSE]

NoWait == [kind |-> "none", key |-> 0, upgrade |-> FALSE]
NoOutcome == <<0, "none", "none">>

\* ------------------------------------------------------------ sequences
RemoveAt(s, i) == [j \in 1..(Len(s) - 1) |-> IF j < i THEN s[j] ELSE s[j + 1]]

InsertAt(s, i, e) ==
  [j \in 1..(Len(s) + 1) |-> IF j < i THEN s[j] ELSE IF j = i THEN e ELSE s[j - 1]]

Min(S) == CHOOSE x \in S : \A y \in S : x <= y
Max(S) == CHOOSE x \in S : \A y \in S : x >= y

\* The first request of transaction t in the queue, 0 when there is none.
IndexOf(rq, t) ==
  IF \E i \in 1..Len(rq) : rq[i].txn = t
  THEN Min({i \in 1..Len(rq) : rq[i].txn = t})
  ELSE 0

\* The position end(): the new request goes behind the whole queue.
FirstUngrantedAtEnd(rq) == Len(rq) + 1

\* std::find_if(begin, end, !granted_): the first ungranted request, or end().
FirstUngranted(rq) ==
  IF \E i \in 1..Len(rq) : ~rq[i].granted
  THEN Min({i \in 1..Len(rq) : ~rq[i].granted})
  ELSE Len(rq) + 1

\* ------------------------------------------------------------- GrantLock
\* Compatible with the S case forgetting that a held IX excludes S.
CompatibleSharedBesideIX(held, req) ==
  CASE req = "S"   -> held \notin {"SIX", "X"}
    [] req = "X"   -> FALSE
    [] req = "IS"  -> held # "X"
    [] req = "IX"  -> held \notin {"S", "SIX", "X"}
    [] req = "SIX" -> held = "IS"

\* The switch of GrantLock: may `req' be granted beside an earlier granted `held'.
Compatible(held, req) ==
  CASE req = "S"   -> held \notin {"IX", "SIX", "X"}
    [] req = "X"   -> FALSE
    [] req = "IS"  -> held # "X"
    [] req = "IX"  -> held \notin {"S", "SIX", "X"}
    [] req = "SIX" -> held = "IS"

\* GrantLock without the test that the earlier requests are granted: only the
\* granted ones are compared.
GrantLockIgnoringWaiters(rq, i) ==
  \A j \in 1..(i - 1) : rq[j].granted => Compatible(rq[j].mode, rq[i].mode)

\* GrantLock for the request at position i: every request before it in the
\* queue is granted and compatible with it.
GrantLock(rq, i) ==
  \A j \in 1..(i - 1) : rq[j].granted /\ Compatible(rq[j].mode, rq[i].mode)


\* ------------------------------------------------------------- lock sets
\* UpdateTableLockSet that inserts and never erases.
UpdateTableLockSetKeeps(l, t, m, o, insert) ==
  [l EXCEPT !.tls[t][m] = @ \cup {o}]

\* A transaction's lock sets, [tls |-> ..., rls |-> ...], after
\* UpdateTableLockSet(txn, lock_mode, oid, insert).
UpdateTableLockSet(l, t, m, o, insert) ==
  [l EXCEPT !.tls[t][m] = IF insert THEN @ \cup {o} ELSE @ \ {o}]

\* ... and after UpdateRowLockSet(txn, lock_request, insert): nothing for an
\* intention mode, else the shared or the exclusive row set of the request's oid.
UpdateRowLockSet(l, t, m, o, rid, insert) ==
  IF m \in {"IS", "IX", "SIX"}
  THEN l
  ELSE LET set == IF m = "S" THEN "S" ELSE "X" IN
       [l EXCEPT !.rls[t][set] = IF insert THEN @ \cup {<<o, rid>>} ELSE @ \ {<<o, rid>>}]

\* UpdateLockSet that inserts and forgets to erase.
UpdateLockSetInsertOnly(kind, l, t, m, o, key, insert) ==
  IF ~insert THEN l
  ELSE IF kind = "table"
  THEN UpdateTableLockSet(l, t, m, o, insert)
  ELSE UpdateRowLockSet(l, t, m, o, key, insert)

UpdateLockSet(kind, l, t, m, o, key, insert) ==
  IF kind = "table"
  THEN UpdateTableLockSet(l, t, m, o, insert)
  ELSE UpdateRowLockSet(l, t, m, o, key, insert)

LockSets == [tls |-> tls, rls |-> rls]

\* Transaction::IsTable...Locked(oid)
IsTableLocked(t, m, o) == o \in tls[t][m]

\* ------------------------------------------------------- queues and waiters
LockMap(kind) == IF kind = "table" THEN table_lock_map_ ELSE row_lock_map_

\* The threads blocked in cv_.wait of the queue: the ones notify_all() reaches.
Waiters(kind, key) == {u \in Txns : wait[u].kind = kind /\ wait[u].key = key}

\* table_lock_map_[oid] = queue / row_lock_map_[rid] = queue
SetQueue(kind, key, q) ==
  IF kind = "table"
  THEN /\ table_lock_map_' = [k \in DOMAIN table_lock_map_ \cup {key} |->
                                IF k = key THEN q ELSE table_lock_map_[k]]
       /\ UNCHANGED row_lock_map_
  ELSE /\ row_lock_map_' = [k \in DOMAIN row_lock_map_ \cup {key} |->
                              IF k = key THEN q ELSE row_lock_map_[k]]
       /\ UNCHANGED table_lock_map_

\* The names of the four calls, by what they do to which kind of queue.
LockCall(kind) == IF kind = "table" THEN "LockTable" ELSE "LockRow"
UnlockCall(kind) == IF kind = "table" THEN "UnlockTable" ELSE "UnlockRow"

\* AbortTransaction(txn, reason) in a call: the state is set and the exception
\* leaves the call.
AbortTransaction(t, call, why) ==
  /\ state' = [state EXCEPT ![t] = "ABORTED"]
  /\ outcome' = <<t, call, why>>
  /\ UNCHANGED <<iso, table_lock_map_, row_lock_map_, tls, rls, wait, notified>>

\* A call that returns true without changing anything.
ReturnTrue(t) ==
  /\ outcome' = NoOutcome
  /\ UNCHANGED <<state, iso, table_lock_map_, row_lock_map_, tls, rls, wait, notified>>

\* ------------------------------------------------- the isolation-level checks
\* LockTableCheck letting a SHRINKING READ_COMMITTED transaction take any lock.
LockTableCheckNoShrinkRC(level, st, m) ==
  CASE level = "READ_UNCOMMITTED" ->
         IF m \in {"S", "IS", "SIX"} THEN "LOCK_SHARED_ON_READ_UNCOMMITTED"
         ELSE IF st = "SHRINKING" /\ m \in {"X", "IX"} THEN "LOCK_ON_SHRINKING"
         ELSE "ok"
    [] level = "READ_COMMITTED" -> "ok"
    [] level = "REPEATABLE_READ" ->
         IF st = "SHRINKING" THEN "LOCK_ON_SHRINKING" ELSE "ok"

\* The first switch of LockTable: the abort reason, or "ok".
LockTableCheck(level, st, m) ==
  CASE level = "READ_UNCOMMITTED" ->
         IF m \in {"S", "IS", "SIX"} THEN "LOCK_SHARED_ON_READ_UNCOMMITTED"
         ELSE IF st = "SHRINKING" /\ m \in {"X", "IX"} THEN "LOCK_ON_SHRINKING"
         ELSE "ok"
    [] level = "READ_COMMITTED" ->
         IF st = "SHRINKING" /\ m # "IS" /\ m # "S" THEN "LOCK_ON_SHRINKING" ELSE "ok"
    [] level = "REPEATABLE_READ" ->
         IF st = "SHRINKING" THEN "LOCK_ON_SHRINKING" ELSE "ok"

\* UpgradeAllowedTable that also lets S be replaced by IS.
UpgradeAllowedTableDowngrade(old, new) ==
  ~ ( /\ (old # "IS" \/ new \notin {"S", "X", "IX", "SIX"})
      /\ (old # "S" \/ new \notin {"X", "SIX", "IS"})
      /\ (old # "IX" \/ new \notin {"X", "SIX"})
      /\ (old # "SIX" \/ new # "X") )

\* The upgrade test of LockTable: may a held `old' be replaced by `new'.
UpgradeAllowedTable(old, new) ==
  ~ ( /\ (old # "IS" \/ new \notin {"S", "X", "IX", "SIX"})
      /\ (old # "S" \/ new \notin {"X", "SIX"})
      /\ (old # "IX" \/ new \notin {"X", "SIX"})
      /\ (old # "SIX" \/ new # "X") )

\* The upgrade test of LockRow.
UpgradeAllowedRow(old, new) ==
  ~ ( /\ (old # "IS" \/ new \notin {"S", "X"})
      /\ (old # "S" \/ new # "X")
      /\ (old # "IX" \/ new # "X")
      /\ (old # "SIX" \/ new # "X") )

\* UpgradeConflict that never sees a pending upgrade.
UpgradeConflictNever(q) == FALSE

\* Is another transaction's upgrade pending on the queue.
UpgradeConflict(q) == q.upgrading # INVALID_TXN_ID

UpgradeAllowed(kind, old, new) ==
  IF kind = "table" THEN UpgradeAllowedTable(old, new) ELSE UpgradeAllowedRow(old, new)

\* ------------------------------------------------------ acquiring a request
\* The end of LockTable and LockRow, and of each wake-up that finds the
\* transaction not aborted: the request of t stands ungranted in q, the lock
\* sets are l.  If GrantLock holds the request is granted (upgrading_ reset
\* for an upgrade, the lock set updated, the queue notified unless the mode
\* is X) and the call returns true; else the thread waits on cv_.
Acquire(kind, t, key, q, l, upgrade) ==
  LET i == IndexOf(q.rq, t)
      r == q.rq[i]
  IN IF GrantLock(q.rq, i)
     THEN LET q1 == [rq |-> [q.rq EXCEPT ![i].granted = TRUE],
                     upgrading |-> IF upgrade THEN INVALID_TXN_ID ELSE q.upgrading]
              l1 == UpdateLockSet(kind, l, t, r.mode, r.oid, key, TRUE)
          IN /\ SetQueue(kind, key, q1)
             /\ tls' = l1.tls
             /\ rls' = l1.rls
             /\ wait' = [wait EXCEPT ![t] = NoWait]
             /\ notified' = (IF r.mode # "X" THEN notified \cup Waiters(kind, key)
                                             ELSE notified) \ {t}
             /\ outcome' = NoOutcome
             /\ UNCHANGED <<state, iso>>
     ELSE /\ SetQueue(kind, key, q)
          /\ tls' = l.tls
          /\ rls' = l.rls
          /\ wait' = [wait EXCEPT ![t] = [kind |-> kind, key |-> key, upgrade |-> upgrade]]
          /\ notified' = notified \ {t}
          /\ outcome' = NoOutcome
          /\ UNCHANGED <<state, iso>>

\* The part of LockTable and LockRow that works on the queue: the scan for a
\* request of the same transaction (same mode: return true; else an upgrade,
\* refused with UPGRADE_CONFLICT or INCOMPATIBLE_UPGRADE, or the old request
\* replaced by a new one ahead of the ungranted requests), else a new request
\* appended to the queue.
Request(kind, t, m, o, key) ==
  LET q == IF key \in DOMAIN LockMap(kind) THEN LockMap(kind)[key] ELSE EmptyQueue
      i == IndexOf(q.rq, t)
  IN IF i = 0
     THEN Acquire(kind, t, key, [q EXCEPT !.rq = Append(@, LockRequest(t, m, o))],
                  LockSets, FALSE)
     ELSE IF q.rq[i].mode = m
     THEN ReturnTrue(t)
     ELSE IF UpgradeConflict(q)
     THEN AbortTransaction(t, LockCall(kind), "UPGRADE_CONFLICT")
     ELSE IF ~UpgradeAllowed(kind, q.rq[i].mode, m)
     THEN AbortTransaction(t, LockCall(kind), "INCOMPATIBLE_UPGRADE")
     ELSE LET old == q.rq[i]
              rq1 == RemoveAt(q.rq, i)
              rq2 == InsertAt(rq1, FirstUngranted(rq1), LockRequest(t, m, o))
              l0  == UpdateLockSet(kind, LockSets, t, old.mode, old.oid, key, FALSE)
          IN Acquire(kind, t, key, [rq |-> rq2, upgrading |-> t], l0, TRUE)

\* ----------------------------------------------------------------- LockTable
LockTable(t, m, o) ==
  /\ wait[t] = NoWait
  /\ LET why == LockTableCheck(iso[t], state[t], m) IN
     IF why # "ok"
     THEN AbortTransaction(t, "LockTable", why)
     ELSE Request("table", t, m, o, o)

\* ------------------------------------------------------------------- wake-up
\* A thread blocked in cv_.wait wakes (notified, or spuriously), holds the
\* latch again and looks: an ABORTED transaction takes its request out of the
\* queue (resetting upgrading_ if it was upgrading), notifies and returns
\* false; any other tries GrantLock again.
\* Wake whose ABORTED branch leaves upgrading_ as it is.
WakeKeepsUpgrading(t) ==
  /\ wait[t] # NoWait
  /\ LET kind == wait[t].kind
         key  == wait[t].key
         q    == LockMap(kind)[key]
         i    == IndexOf(q.rq, t)
     IN IF state[t] = "ABORTED"
        THEN /\ SetQueue(kind, key, [rq |-> RemoveAt(q.rq, i), upgrading |-> q.upgrading])
             /\ wait' = [wait EXCEPT ![t] = NoWait]
             /\ notified' = (notified \cup Waiters(kind, key)) \ {t}
             /\ outcome' = <<t, LockCall(kind), "false">>
             /\ UNCHANGED <<state, iso, tls, rls>>
        ELSE Acquire(kind, t, key, q, LockSets, wait[t].upgrade)

Wake(t) ==
  /\ wait[t] # NoWait
  /\ LET kind == wait[t].kind
         key  == wait[t].key
         q    == LockMap(kind)[key]
         i    == IndexOf(q.rq, t)
     IN IF state[t] = "ABORTED"
        THEN /\ SetQueue(kind, key,
                  [rq |-> RemoveAt(q.rq, i),
                   upgrading |-> IF wait[t].upgrade THEN INVALID_TXN_ID ELSE q.upgrading])
             /\ wait' = [wait EXCEPT ![t] = NoWait]
             /\ notified' = (notified \cup Waiters(kind, key)) \ {t}
             /\ outcome' = <<t, LockCall(kind), "false">>
             /\ UNCHANGED <<state, iso, tls, rls>>
        ELSE Acquire(kind, t, key, q, LockSets, wait[t].upgrade)

\* --------------------------------------------------------------- UnlockTable
\* The first granted request of t in the queue, 0 when there is none.
GrantedIndexOf(rq, t) ==
  IF \E i \in 1..Len(rq) : rq[i].txn = t /\ rq[i].granted
  THEN Min({i \in 1..Len(rq) : rq[i].txn = t /\ rq[i].granted})
  ELSE 0

\* StateAfterUnlock with READ_COMMITTED shrinking on an S lock as well.
StateAfterUnlockSharedRC(level, st, m) ==
  IF \/ (level = "REPEATABLE_READ" /\ m \in {"S", "X"})
     \/ (level = "READ_COMMITTED" /\ m \in {"S", "X"})
     \/ (level = "READ_UNCOMMITTED" /\ m = "X")
  THEN IF st # "COMMITTED" /\ st # "ABORTED" THEN "SHRINKING" ELSE st
  ELSE st

\* StateAfterUnlock with REPEATABLE_READ shrinking on a lock of any mode.
StateAfterUnlockAnyMode(level, st, m) ==
  IF \/ level = "REPEATABLE_READ"
     \/ (level = "READ_COMMITTED" /\ m = "X")
     \/ (level = "READ_UNCOMMITTED" /\ m = "X")
  THEN IF st # "COMMITTED" /\ st # "ABORTED" THEN "SHRINKING" ELSE st
  ELSE st

\* The state after a successful unlock of a lock of mode m.
StateAfterUnlock(level, st, m) ==
  IF \/ (level = "REPEATABLE_READ" /\ m \in {"S", "X"})
     \/ (level = "READ_COMMITTED" /\ m = "X")
     \/ (level = "READ_UNCOMMITTED" /\ m = "X")
  THEN IF st # "COMMITTED" /\ st # "ABORTED" THEN "SHRINKING" ELSE st
  ELSE st

\* Release that does not notify the queue.
ReleaseSilent(kind, t, key) ==
  LET q == LockMap(kind)[key]
      i == GrantedIndexOf(q.rq, t)
  IN IF i = 0
     THEN AbortTransaction(t, UnlockCall(kind), "ATTEMPTED_UNLOCK_BUT_NO_LOCK_HELD")
     ELSE LET r == q.rq[i]
              l == UpdateLockSet(kind, LockSets, t, r.mode, r.oid, key, FALSE)
          IN /\ SetQueue(kind, key, [q EXCEPT !.rq = RemoveAt(q.rq, i)])
             /\ state' = [state EXCEPT ![t] = StateAfterUnlock(iso[t], state[t], r.mode)]
             /\ tls' = l.tls
             /\ rls' = l.rls
             /\ outcome' = NoOutcome
             /\ UNCHANGED <<iso, wait, notified>>

\* The common end of UnlockTable and UnlockRow: the first granted request of
\* t leaves the queue, the queue is notified, the state and lock set follow.
Release(kind, t, key) ==
  LET q == LockMap(kind)[key]
      i == GrantedIndexOf(q.rq, t)
  IN IF i = 0
     THEN AbortTransaction(t, UnlockCall(kind), "ATTEMPTED_UNLOCK_BUT_NO_LOCK_HELD")
     ELSE LET r == q.rq[i]
              l == UpdateLockSet(kind, LockSets, t, r.mode, r.oid, key, FALSE)
          IN /\ SetQueue(kind, key, [q EXCEPT !.rq = RemoveAt(q.rq, i)])
             /\ notified' = notified \cup Waiters(kind, key)
             /\ state' = [state EXCEPT ![t] = StateAfterUnlock(iso[t], state[t], r.mode)]
             /\ tls' = l.tls
             /\ rls' = l.rls
             /\ outcome' = NoOutcome
             /\ UNCHANGED <<iso, wait>>

\* HoldsRowLockOn that never sees a row lock.
HoldsRowLockOnNever(t, o) == FALSE

\* Does t hold a row lock (shared or exclusive) on a row of table o.
HoldsRowLockOn(t, o) ==
  \/ \E p \in rls[t]["S"] : p[1] = o
  \/ \E p \in rls[t]["X"] : p[1] = o

UnlockTable(t, o) ==
  /\ wait[t] = NoWait
  /\ IF o \notin DOMAIN table_lock_map_
     THEN AbortTransaction(t, "UnlockTable", "ATTEMPTED_UNLOCK_BUT_NO_LOCK_HELD")
     ELSE IF HoldsRowLockOn(t, o)
     THEN AbortTransaction(t, "UnlockTable", "TABLE_UNLOCKED_BEFORE_UNLOCKING_ROWS")
     ELSE Release("table", t, o)

\* ------------------------------------------------------------------- LockRow
\* LockRowCheck that asks for no table lock before an X row lock.
LockRowCheckNoTableLock(t, m, o) ==
  IF m \in {"IX", "IS", "SIX"} THEN "ATTEMPTED_INTENTION_LOCK_ON_ROW"
  ELSE CASE iso[t] = "READ_UNCOMMITTED" ->
              IF m = "S" THEN "LOCK_SHARED_ON_READ_UNCOMMITTED"
              ELSE IF state[t] = "SHRINKING" /\ m = "X" THEN "LOCK_ON_SHRINKING"
              ELSE "ok"
         [] iso[t] = "READ_COMMITTED" ->
              IF state[t] = "SHRINKING" /\ m # "S" THEN "LOCK_ON_SHRINKING" ELSE "ok"
         [] iso[t] = "REPEATABLE_READ" ->
              IF state[t] = "SHRINKING" THEN "LOCK_ON_SHRINKING" ELSE "ok"

\* The first switch of LockRow (the mode, and the table lock an X needs), then
\* its isolation-level switch: the abort reason, or "ok".
LockRowCheck(t, m, o) ==
  IF m \in {"IX", "IS", "SIX"} THEN "ATTEMPTED_INTENTION_LOCK_ON_ROW"
  ELSE IF /\ m = "X"
          /\ ~IsTableLocked(t, "X", o)
          /\ ~IsTableLocked(t, "IX", o)
          /\ ~IsTableLocked(t, "SIX", o)
  THEN "TABLE_LOCK_NOT_PRESENT"
  ELSE CASE iso[t] = "READ_UNCOMMITTED" ->
              IF m = "S" THEN "LOCK_SHARED_ON_READ_UNCOMMITTED"
              ELSE IF state[t] = "SHRINKING" /\ m = "X" THEN "LOCK_ON_SHRINKING"
              ELSE "ok"
         [] iso[t] = "READ_COMMITTED" ->
              IF state[t] = "SHRINKING" /\ m # "S" THEN "LOCK_ON_SHRINKING" ELSE "ok"
         [] iso[t] = "REPEATABLE_READ" ->
              IF state[t] = "SHRINKING" THEN "LOCK_ON_SHRINKING" ELSE "ok"

LockRow(t, m, o, rid) ==
  /\ wait[t] = NoWait
  /\ LET why == LockRowCheck(t, m, o) IN
     IF why # "ok"
     THEN AbortTransaction(t, "LockRow", why)
     ELSE Request("row", t, m, o, rid)

\* ----------------------------------------------------------------- UnlockRow
UnlockRow(t, o, rid) ==
  /\ wait[t] = NoWait
  /\ IF rid \notin DOMAIN row_lock_map_
     THEN AbortTransaction(t, "UnlockRow", "ATTEMPTED_UNLOCK_BUT_NO_LOCK_HELD")
     ELSE Release("row", t, rid)


\* --------------------------------------------------------- deadlock detection
\* The txn ids of a set in ascending order (std::sort of a successor list, and
\* the order HasCycle takes its start nodes in).
RECURSIVE Sorted(_)
Sorted(S) == IF S = {} THEN <<>> ELSE <<Min(S)>> \o Sorted(S \ {Min(S)})

\* The edges a queue adds to waits_for_: each ungranted request waits for the
\* transactions of the granted requests that stand before it in the queue.
QueueEdges(rq) ==
  {<<rq[i].txn, rq[j].txn>> : i \in {k \in 1..Len(rq) : ~rq[k].granted},
                              j \in {k \in 1..Len(rq) : rq[k].granted}}
    \cap {e \in Txns \X Txns :
            \E i, j \in 1..Len(rq) : /\ j < i
                                     /\ rq[i].txn = e[1] /\ ~rq[i].granted
                                     /\ rq[j].txn = e[2] /\ rq[j].granted}

\* waits_for_ after the two scans of RunCycleDetection, as a set of edges.
WaitsForEdges ==
  UNION ( {QueueEdges(table_lock_map_[o].rq) : o \in DOMAIN table_lock_map_}
          \cup {QueueEdges(row_lock_map_[r].rq) : r \in DOMAIN row_lock_map_} )

\* txn_set_: every transaction AddEdge has seen.
TxnSetOf(edges) == {e[1] : e \in edges} \cup {e[2] : e \in edges}

\* waits_for_[t] of an edge set.
Successors(edges, t) == {e[2] : e \in {d \in edges : d[1] = t}}

\* FindCycle(txn_id), with active_set_ and safe_set_ passed in and handed back:
\* [res, active, safe].
RECURSIVE FindCycle(_, _, _, _), FindCycleFrom(_, _, _, _, _)
FindCycle(txn, active, safe, edges) ==
  IF txn \in safe THEN [res |-> FALSE, active |-> active, safe |-> safe]
  ELSE IF txn \in active THEN [res |-> TRUE, active |-> active, safe |-> safe]
  ELSE FindCycleFrom(txn, Sorted(Successors(edges, txn)), active \cup {txn}, safe, edges)

\* The loop of FindCycle over the sorted successors g that are left.
FindCycleFrom(txn, g, active, safe, edges) ==
  IF g = <<>>
  THEN [res |-> FALSE, active |-> active \ {txn}, safe |-> safe \cup {txn}]
  ELSE LET r == FindCycle(Head(g), active, safe, edges) IN
       IF r.res THEN r ELSE FindCycleFrom(txn, Tail(g), r.active, r.safe, edges)

\* The victim HasCycle picks from the active set of a found cycle.
VictimSmallest(active) == Min(active)

Victim(active) == Max(active)

\* HasCycle over the start nodes that are left: [res, victim, safe].  Each
\* start runs FindCycle with an empty active_set_ and the safe_set_ so far.
RECURSIVE HasCycle(_, _, _)
HasCycle(starts, safe, edges) ==
  IF starts = <<>>
  THEN [res |-> FALSE, victim |-> INVALID_TXN_ID, safe |-> safe]
  ELSE LET r == FindCycle(Head(starts), {}, safe, edges) IN
       IF r.res
       THEN [res |-> TRUE, victim |-> Victim(r.active), safe |-> r.safe]
       ELSE HasCycle(Tail(starts), r.safe, edges)

\* The loop `for (txn_id_t txn_id; HasCycle(&txn_id);)': the transactions it
\* aborts.  A victim's edges leave the graph; txn_set_ and safe_set_ stay.
RECURSIVE Victims(_, _, _)
Victims(txn_set, safe, edges) ==
  LET h == HasCycle(Sorted(txn_set), safe, edges) IN
  IF h.res
  THEN {h.victim} \cup Victims(txn_set, h.safe,
                               {e \in edges : e[1] # h.victim /\ e[2] # h.victim})
  ELSE {}

\* One pass of RunCycleDetection's loop body: the graph is built from the
\* queues, every victim is set ABORTED and the queue it waits in is notified.
RunCycleDetection ==
  LET edges == WaitsForEdges
      dead  == Victims(TxnSetOf(edges), {}, edges)
  IN /\ state' = [t \in Txns |-> IF t \in dead THEN "ABORTED" ELSE state[t]]
     /\ notified' = notified \cup
          UNION {Waiters(wait[v].kind, wait[v].key) : v \in dead}
     /\ outcome' = NoOutcome
     /\ UNCHANGED <<iso, table_lock_map_, row_lock_map_, tls, rls, wait>>

\* -------------------------------------------------------------------- commit
\* TransactionManager::Commit sets the state; the locks are then released
\* through UnlockRow and UnlockTable.
Commit(t) ==
  /\ wait[t] = NoWait
  /\ state[t] \in {"GROWING", "SHRINKING"}
  /\ state' = [state EXCEPT ![t] = "COMMITTED"]
  /\ outcome' = NoOutcome
  /\ UNCHANGED <<iso, table_lock_map_, row_lock_map_, tls, rls, wait, notified>>

\* ============================================================ LRU-K replacer
INVALID_PAGE_ID == -1

\* A Frame of the replacer as Frame(k) constructs it: no access recorded.
Frame(k) == [k_ |-> k, valid_ |-> FALSE, evictable_ |-> FALSE, history_ |-> <<>>]

\* Frame::Full: k accesses are recorded.
Full(fr) == Len(fr.history_) >= fr.k_

\* Frame::Timestamp: the oldest access kept, the k-th most recent of a full frame.
Timestamp(fr) == IF fr.history_ = <<>> THEN 0 ELSE Head(fr.history_)

\* Frame::Access: the timestamp joins the history, which keeps the last k.
Access(fr, ts) ==
  LET h == Append(fr.history_, ts) IN
  [fr EXCEPT !.history_ = IF Len(h) > fr.k_ THEN Tail(h) ELSE h]

\* Frame::Reset
Reset(fr) == Frame(fr.k_)

\* LRUKReplacer(num_frames, k): frames_ has num_frames + 1 entries.
LRUKReplacer(num_frames, k) ==
  [replacer_size_ |-> num_frames, k_ |-> k,
   frames_ |-> [i \in 0..num_frames |-> Frame(k)],
   curr_size_ |-> 0, current_timestamp_ |-> 0]

\* frame_cmp that compares the timestamps alone.
frame_cmpTimestampOnly(a, b) == Timestamp(a) < Timestamp(b)

\* frame_cmp of Evict: a goes before b.
frame_cmp(a, b) == IF Full(a) = Full(b) THEN Timestamp(a) < Timestamp(b) ELSE ~Full(a)

\* The loop of Evict over frames_[i .. replacer_size_ - 1], *frame_id being cur.
RECURSIVE EvictScan(_, _, _)
EvictScan(r, i, cur) ==
  IF i >= r.replacer_size_ THEN cur
  ELSE IF ~r.frames_[i].evictable_ THEN EvictScan(r, i + 1, cur)
  ELSE IF cur = -1 \/ frame_cmp(r.frames_[i], r.frames_[cur]) THEN EvictScan(r, i + 1, i)
  ELSE EvictScan(r, i + 1, cur)

\* LRUKReplacer::Evict: the return value, *frame_id and the replacer after it.
Evict(r) ==
  LET f == EvictScan(r, 0, -1) IN
  IF f = -1
  THEN [ok |-> FALSE, frame_id |-> -1, r |-> r]
  ELSE [ok |-> TRUE, frame_id |-> f,
        r |-> [r EXCEPT !.frames_[f] = Reset(@), !.curr_size_ = @ - 1]]

\* LRUKReplacer::RecordAccess
RecordAccess(r, f) ==
  LET r1 == IF ~r.frames_[f].valid_
            THEN [r EXCEPT !.frames_[f].valid_ = TRUE,
                           !.frames_[f].evictable_ = TRUE,
                           !.curr_size_ = @ + 1]
            ELSE r
  IN [r1 EXCEPT !.frames_[f] = Access(@, r.current_timestamp_),
                !.current_timestamp_ = @ + 1]

\* SetEvictable that changes nothing.
SetEvictableIgnored(r, f, set_evictable) == r

\* LRUKReplacer::SetEvictable
SetEvictable(r, f, set_evictable) ==
  IF ~r.frames_[f].valid_ THEN r
  ELSE IF r.frames_[f].evictable_ # set_evictable
  THEN [r EXCEPT !.frames_[f].evictable_ = set_evictable,
                 !.curr_size_ = IF set_evictable THEN @ + 1 ELSE @ - 1]
  ELSE r

\* BUSTUB_ASSERT(frame.evictable_) of Remove fails and ends the process.
RemoveAsserts(r, f) ==
  f < r.replacer_size_ /\ r.frames_[f].valid_ /\ ~r.frames_[f].evictable_

\* Remove that leaves curr_size_ as it is.
RemoveKeepsSize(r, f) ==
  IF f >= r.replacer_size_ THEN r
  ELSE IF ~r.frames_[f].valid_ THEN r
  ELSE [r EXCEPT !.frames_[f] = Reset(@)]

\* LRUKReplacer::Remove, where its assertion holds.
Remove(r, f) ==
  IF f >= r.replacer_size_ THEN r
  ELSE IF ~r.frames_[f].valid_ THEN r
  ELSE [r EXCEPT !.frames_[f] = Reset(@), !.curr_size_ = @ - 1]

\* LRUKReplacer::Size
Size(r) == r.curr_size_

\* ================================================================ buffer pool
Frames  == 0..(PoolSize - 1)
PageIds == 0..(MaxPages - 1)
Data    == 0..MaxData

\* A Page that holds nothing: ResetMemory() zeroes the contents.
EmptyPage == [page_id_ |-> INVALID_PAGE_ID, pin_count_ |-> 0, is_dirty_ |-> FALSE, data_ |-> 0]

NoResult == <<"none", -1, "none">>
DELETED == -1
\* The null Page pointer NewPgImp and FetchPgImp return for failure; a frame
\* id stands for the pointer to that frame's Page.
NULL == -1

\* The state the constructors leave: every frame on the free list, no page
\* resident, nothing on disk but zeroes.
InitPool ==
  /\ pages_ = [f \in Frames |-> EmptyPage]
  /\ free_list_ = [i \in 1..PoolSize |-> i - 1]
  /\ page_table_ = <<>>
  /\ replacer_ = LRUKReplacer(PoolSize, ReplacerK)
  /\ next_page_id_ = 0
  /\ disk = [p \in PageIds |-> 0]
  /\ written = [p \in PageIds |-> 0]
  /\ result = NoResult

\* page_table_->Find(page_id, frame_id)
Resident(p) == p \in DOMAIN page_table_

\* page_table_->Insert(page_id, frame_id) and page_table_->Remove(page_id);
\* TableRemoveKeeps is a Remove that removes nothing.
TableInsert(pt, p, f) == [q \in DOMAIN pt \cup {p} |-> IF q = p THEN f ELSE pt[q]]
TableRemoveKeeps(pt, p) == pt
TableRemove(pt, p) == [q \in DOMAIN pt \ {p} |-> pt[q]]

\* disk_manager_->WritePage(page_id, data)
WritePage(d, p, data) == [d EXCEPT ![p] = data]

\* TakeFrame that fails once the free list is empty, asking no replacer.
TakeFrameFreeOnly ==
  IF free_list_ # <<>>
  THEN [ok |-> TRUE, frame_id |-> Head(free_list_), free |-> Tail(free_list_),
        r |-> replacer_, pt |-> page_table_, d |-> disk]
  ELSE [ok |-> FALSE, frame_id |-> -1, free |-> free_list_, r |-> replacer_,
        pt |-> page_table_, d |-> disk]

\* TakeFrame that writes no dirty page back.
TakeFrameNoWriteBack ==
  IF free_list_ # <<>>
  THEN [ok |-> TRUE, frame_id |-> Head(free_list_), free |-> Tail(free_list_),
        r |-> replacer_, pt |-> page_table_, d |-> disk]
  ELSE LET e == Evict(replacer_) IN
       IF e.ok
       THEN [ok |-> TRUE, frame_id |-> e.frame_id, free |-> free_list_, r |-> e.r,
             pt |-> TableRemove(page_table_, pages_[e.frame_id].page_id_), d |-> disk]
       ELSE [ok |-> FALSE, frame_id |-> -1, free |-> free_list_, r |-> e.r,
             pt |-> page_table_, d |-> disk]

\* The frame NewPgImp and FetchPgImp take: the front of the free list, else
\* the frame the replacer evicts, its page written back if dirty and taken
\* out of the page table; ok is FALSE when there is neither.
TakeFrame ==
  IF free_list_ # <<>>
  THEN [ok |-> TRUE, frame_id |-> Head(free_list_), free |-> Tail(free_list_),
        r |-> replacer_, pt |-> page_table_, d |-> disk]
  ELSE LET e == Evict(replacer_) IN
       IF e.ok
       THEN LET page == pages_[e.frame_id] IN
            [ok |-> TRUE, frame_id |-> e.frame_id, free |-> free_list_, r |-> e.r,
             pt |-> TableRemove(page_table_, page.page_id_),
             d |-> IF page.is_dirty_ THEN WritePage(disk, page.page_id_, page.data_) ELSE disk]
       ELSE [ok |-> FALSE, frame_id |-> -1, free |-> free_list_, r |-> e.r,
             pt |-> page_table_, d |-> disk]

\* The page of page id p with contents data installs in the frame tf took.
Install(tf, p, data) ==
  /\ pages_' = [pages_ EXCEPT ![tf.frame_id] =
                  [page_id_ |-> p, pin_count_ |-> 1, is_dirty_ |-> FALSE, data_ |-> data]]
  /\ free_list_' = tf.free
  /\ page_table_' = TableInsert(tf.pt, p, tf.frame_id)
  /\ replacer_' = SetEvictable(RecordAccess(tf.r, tf.frame_id), tf.frame_id, FALSE)
  /\ disk' = tf.d

\* BufferPoolManagerInstance::NewPgImp
NewPgImp ==
  /\ next_page_id_ < MaxPages
  /\ replacer_.current_timestamp_ < MaxAccess
  /\ LET tf == TakeFrame IN
     IF ~tf.ok
     THEN /\ result' = <<"NewPage", INVALID_PAGE_ID, NULL>>
          /\ UNCHANGED <<pages_, free_list_, page_table_, replacer_, next_page_id_, disk, written>>
     ELSE /\ Install(tf, next_page_id_, 0)
          /\ next_page_id_' = next_page_id_ + 1
          /\ UNCHANGED written
          /\ result' = <<"NewPage", next_page_id_, tf.frame_id>>

\* BufferPoolManagerInstance::FetchPgImp, for a page id NewPgImp has handed out.
FetchPgImp(p) ==
  /\ p < next_page_id_
  /\ replacer_.current_timestamp_ < MaxAccess
  /\ IF Resident(p)
     THEN LET f == page_table_[p] IN
          /\ pages_[f].pin_count_ < MaxPin
          /\ pages_' = [pages_ EXCEPT ![f].pin_count_ = @ + 1]
          /\ replacer_' = SetEvictable(RecordAccess(replacer_, f), f, FALSE)
          /\ result' = <<"FetchPage", p, f>>
          /\ UNCHANGED <<free_list_, page_table_, next_page_id_, disk, written>>
     ELSE LET tf == TakeFrame IN
          IF ~tf.ok
          THEN /\ result' = <<"FetchPage", p, NULL>>
               /\ UNCHANGED <<pages_, free_list_, page_table_, replacer_, next_page_id_, disk, written>>
          ELSE /\ Install(tf, p, tf.d[p])
               /\ result' = <<"FetchPage", p, tf.frame_id>>
               /\ UNCHANGED <<next_page_id_, written>>

\* UnpinPgImp that assigns is_dirty to the dirty flag.
UnpinPgImpOverwritesDirty(p, is_dirty, data) ==
  IF ~Resident(p) \/ pages_[page_table_[p]].pin_count_ = 0
  THEN /\ result' = <<"UnpinPage", p, FALSE>>
       /\ UNCHANGED <<pages_, free_list_, page_table_, replacer_, next_page_id_, disk, written>>
  ELSE LET f == page_table_[p] IN
       /\ pages_' = [pages_ EXCEPT ![f].pin_count_ = @ - 1,
                                   ![f].is_dirty_ = is_dirty,
                                   ![f].data_ = IF is_dirty THEN data ELSE @]
       /\ replacer_' = IF pages_[f].pin_count_ - 1 = 0
                       THEN SetEvictable(replacer_, f, TRUE)
                       ELSE replacer_
       /\ written' = IF is_dirty THEN [written EXCEPT ![p] = data] ELSE written
       /\ result' = <<"UnpinPage", p, TRUE>>
       /\ UNCHANGED <<free_list_, page_table_, next_page_id_, disk>>

\* BufferPoolManagerInstance::UnpinPgImp.  A holder that unpins with is_dirty
\* has left the contents `data' in the page; one that unpins without has left
\* the page as it found it.
UnpinPgImp(p, is_dirty, data) ==
  IF ~Resident(p) \/ pages_[page_table_[p]].pin_count_ = 0
  THEN /\ result' = <<"UnpinPage", p, FALSE>>
       /\ UNCHANGED <<pages_, free_list_, page_table_, replacer_, next_page_id_, disk, written>>
  ELSE LET f == page_table_[p] IN
       /\ pages_' = [pages_ EXCEPT ![f].pin_count_ = @ - 1,
                                   ![f].is_dirty_ = @ \/ is_dirty,
                                   ![f].data_ = IF is_dirty THEN data ELSE @]
       /\ replacer_' = IF pages_[f].pin_count_ - 1 = 0
                       THEN SetEvictable(replacer_, f, TRUE)
                       ELSE replacer_
       /\ written' = IF is_dirty THEN [written EXCEPT ![p] = data] ELSE written
       /\ result' = <<"UnpinPage", p, TRUE>>
       /\ UNCHANGED <<free_list_, page_table_, next_page_id_, disk>>

\* BufferPoolManagerInstance::FlushPgImp
FlushPgImp(p) ==
  IF ~Resident(p)
  THEN /\ result' = <<"FlushPage", p, FALSE>>
       /\ UNCHANGED <<pages_, free_list_, page_table_, replacer_, next_page_id_, disk, written>>
  ELSE LET f == page_table_[p] IN
       /\ disk' = WritePage(disk, p, pages_[f].data_)
       /\ pages_' = [pages_ EXCEPT ![f].is_dirty_ = FALSE]
       /\ result' = <<"FlushPage", p, TRUE>>
       /\ UNCHANGED <<free_list_, page_table_, replacer_, next_page_id_, written>>

\* BufferPoolManagerInstance::FlushAllPgsImp
FlushAllPgsImp ==
  /\ disk' = [p \in PageIds |->
                IF \E f \in Frames : pages_[f].page_id_ = p
                THEN pages_[CHOOSE f \in Frames : pages_[f].page_id_ = p /\
                            \A g \in Frames : pages_[g].page_id_ = p => g <= f].data_
                ELSE disk[p]]
  /\ pages_' = [f \in Frames |->
                  IF pages_[f].page_id_ # INVALID_PAGE_ID
                  THEN [pages_[f] EXCEPT !.is_dirty_ = FALSE]
                  ELSE pages_[f]]
  /\ result' = <<"FlushAllPages", INVALID_PAGE_ID, "void">>
  /\ UNCHANGED <<free_list_, page_table_, replacer_, next_page_id_, written>>

\* DeletePgImp that does not return the frame to the free list.
DeletePgImpLeaksFrame(p) ==
  IF ~Resident(p)
  THEN /\ result' = <<"DeletePage", p, TRUE>>
       /\ written' = [written EXCEPT ![p] = DELETED]
       /\ UNCHANGED <<pages_, free_list_, page_table_, replacer_, next_page_id_, disk>>
  ELSE LET f == page_table_[p] IN
       IF pages_[f].pin_count_ > 0
       THEN /\ result' = <<"DeletePage", p, FALSE>>
            /\ UNCHANGED <<pages_, free_list_, page_table_, replacer_, next_page_id_, disk, written>>
       ELSE /\ ~RemoveAsserts(replacer_, f)
            /\ page_table_' = TableRemove(page_table_, p)
            /\ replacer_' = Remove(replacer_, f)
            /\ pages_' = [pages_ EXCEPT ![f].data_ = 0,
                                        ![f].is_dirty_ = FALSE,
                                        ![f].page_id_ = INVALID_PAGE_ID]
            /\ written' = [written EXCEPT ![p] = DELETED]
            /\ result' = <<"DeletePage", p, TRUE>>
            /\ UNCHANGED <<free_list_, next_page_id_, disk>>

\* BufferPoolManagerInstance::DeletePgImp
DeletePgImp(p) ==
  IF ~Resident(p)
  THEN /\ result' = <<"DeletePage", p, TRUE>>
       /\ written' = [written EXCEPT ![p] = DELETED]
       /\ UNCHANGED <<pages_, free_list_, page_table_, replacer_, next_page_id_, disk>>
  ELSE LET f == page_table_[p] IN
       IF pages_[f].pin_count_ > 0
       THEN /\ result' = <<"DeletePage", p, FALSE>>
            /\ UNCHANGED <<pages_, free_list_, page_table_, replacer_, next_page_id_, disk, written>>
       ELSE /\ ~RemoveAsserts(replacer_, f)
            /\ page_table_' = TableRemove(page_table_, p)
            /\ replacer_' = Remove(replacer_, f)
            /\ free_list_' = Append(free_list_, f)
            /\ pages_' = [pages_ EXCEPT ![f].data_ = 0,
                                        ![f].is_dirty_ = FALSE,
                                        ![f].page_id_ = INVALID_PAGE_ID]
            /\ written' = [written EXCEPT ![p] = DELETED]
            /\ result' = <<"DeletePage", p, TRUE>>
            /\ UNCHANGED <<next_page_id_, disk>>

\* ------------------------------------------------ the replacer driven alone
ReplacerRecordAccess(f) ==
  /\ replacer_.current_timestamp_ < MaxStamp
  /\ replacer_' = RecordAccess(replacer_, f)
  /\ result' = <<"RecordAccess", f, "void">>
  /\ UNCHANGED <<pages_, free_list_, page_table_, next_page_id_, disk, written>>

ReplacerSetEvictable(f, set_evictable) ==
  /\ replacer_' = SetEvictable(replacer_, f, set_evictable)
  /\ result' = <<"SetEvictable", f, "void">>
  /\ UNCHANGED <<pages_, free_list_, page_table_, next_page_id_, disk, written>>

ReplacerEvict ==
  LET e == Evict(replacer_) IN
  /\ replacer_' = e.r
  /\ result' = <<"Evict", e.frame_id, e.ok>>
  /\ UNCHANGED <<pages_, free_list_, page_table_, next_page_id_, disk, written>>

ReplacerRemove(f) ==
  /\ ~RemoveAsserts(replacer_, f)
  /\ replacer_' = Remove(replacer_, f)
  /\ result' = <<"Remove", f, "void">>
  /\ UNCHANGED <<pages_, free_list_, page_table_, next_page_id_, disk, written>>

\* ======================================================= extendible hash table
Keys   == 0..(HashKeys - 1)
Values == 0..(HashValues - 1)
ABSENT == -1
NoFound == <<"none", -1, FALSE, -1>>

\* std::hash of an integer key is the key.
Hash(key) == key

\* Bucket(array_size, depth): an empty list_.
Bucket(depth) == [depth_ |-> depth, list_ |-> <<>>]

\* Bucket::IsFull
IsFull(b) == Len(b.list_) >= BucketSize

\* The position of key in list_, 0 if it is not there (std::find_if).
PosOf(b, key) ==
  IF \E i \in DOMAIN b.list_ : b.list_[i][1] = key
  THEN CHOOSE i \in DOMAIN b.list_ :
         /\ b.list_[i][1] = key
         /\ \A j \in 1..(i - 1) : b.list_[j][1] # key
  ELSE 0

\* Bucket::Find: the return value and, if true, the value.
BucketFind(b, key) ==
  IF PosOf(b, key) # 0 THEN <<TRUE, b.list_[PosOf(b, key)][2]>> ELSE <<FALSE, ABSENT>>

\* Bucket::Remove: the return value and the bucket after it.
BucketRemove(b, key) ==
  LET pos == PosOf(b, key) IN
  IF pos # 0
  THEN [ok |-> TRUE,
        b |-> [b EXCEPT !.list_ = [i \in 1..(Len(@) - 1) |-> IF i < pos THEN @[i] ELSE @[i + 1]]]]
  ELSE [ok |-> FALSE, b |-> b]

\* Bucket::Insert that never finds the bucket full.
BucketInsertNoLimit(b, key, value) ==
  LET pos == PosOf(b, key) IN
  IF pos # 0 THEN [ok |-> TRUE, b |-> [b EXCEPT !.list_[pos] = <<key, value>>]]
  ELSE [ok |-> TRUE, b |-> [b EXCEPT !.list_ = Append(@, <<key, value>>)]]

\* Bucket::Insert: the return value and the bucket after it.
BucketInsert(b, key, value) ==
  LET pos == PosOf(b, key) IN
  IF pos # 0 THEN [ok |-> TRUE, b |-> [b EXCEPT !.list_[pos] = <<key, value>>]]
  ELSE IF IsFull(b) THEN [ok |-> FALSE, b |-> b]
  ELSE [ok |-> TRUE, b |-> [b EXCEPT !.list_ = Append(@, <<key, value>>)]]

\* The table as one value: the fields the member functions work on.
Table == [global_depth_ |-> global_depth_, dir_ |-> dir_, buckets |-> buckets,
          num_buckets_ |-> num_buckets_]

\* ExtendibleHashTable::IndexOf (the name IndexOf is taken): hash & ((1 << global_depth_) - 1).
DirIndexOf(ht, key) == Hash(key) % (2 ^ ht.global_depth_)

\* The doubling of the directory in Insert: slot i of the new directory is
\* slot i & ((1 << (global_depth_ - 1)) - 1) of the old one.
GrowDirectory(ht) ==
  LET g == ht.global_depth_ + 1 IN
  [ht EXCEPT !.global_depth_ = g,
             !.dir_ = [i \in 0..(2 ^ g - 1) |-> ht.dir_[i % (2 ^ (g - 1))]]]

\* The loop of Insert that points the slots i << old_depth | mask at bucket1
\* for odd i and at bucket0 for even i.
SplitSlots(ht, old_depth, mask, bucket0, bucket1) ==
  LET n == 2 ^ (ht.global_depth_ - old_depth)
      SlotOf(i) == i * (2 ^ old_depth) + mask
  IN [s \in DOMAIN ht.dir_ |->
        IF \E i \in 0..(n - 1) : SlotOf(i) = s
        THEN LET i == CHOOSE j \in 0..(n - 1) : SlotOf(j) = s
             IN IF i % 2 = 1 THEN bucket1 ELSE bucket0
        ELSE ht.dir_[s]]

\* RedistributeBucket that inserts nothing.
RedistributeNothing(ht, items, n) == ht

\* ExtendibleHashTable::RedistributeBucket over the items from the n-th on.
RECURSIVE RedistributeBucket(_, _, _)
RedistributeBucket(ht, items, n) ==
  IF n > Len(items) THEN ht
  ELSE LET id == ht.dir_[DirIndexOf(ht, items[n][1])]
           bi == BucketInsert(ht.buckets[id], items[n][1], items[n][2])
       IN RedistributeBucket([ht EXCEPT !.buckets[id] = bi.b], items, n + 1)

\* The addresses make_shared returns: two that no live Bucket has.
FreshBuckets(ht) ==
  LET b0 == CHOOSE a \in 0..(Cardinality(DOMAIN ht.buckets) + 1) : a \notin DOMAIN ht.buckets
      b1 == CHOOSE a \in 0..(Cardinality(DOMAIN ht.buckets) + 1) :
              a \notin DOMAIN ht.buckets /\ a # b0
  IN <<b0, b1>>

\* One round of the loop of Insert after the bucket refused the key: the
\* directory doubles if the bucket is as deep as the directory, the
\* bucket's slots go to two new buckets and its items are redistributed.
\* The old Bucket dies with its last shared_ptr.
SplitBucket(ht, index) ==
  LET old_depth == ht.buckets[ht.dir_[index]].depth_
      ht1 == IF old_depth = ht.global_depth_ THEN GrowDirectory(ht) ELSE ht
      old_bucket == ht1.dir_[index]
      fresh == FreshBuckets(ht1)
      mask == index % (2 ^ old_depth)
      ht2 == [ht1 EXCEPT
                !.dir_ = SplitSlots(ht1, old_depth, mask, fresh[1], fresh[2]),
                !.buckets = [a \in DOMAIN @ \cup {fresh[1], fresh[2]} |->
                               IF a \in {fresh[1], fresh[2]}
                               THEN Bucket(old_depth + 1) ELSE @[a]]]
      ht3 == RedistributeBucket(ht2, ht1.buckets[old_bucket].list_, 1)
  IN [ht3 EXCEPT !.buckets = [a \in {ht3.dir_[s] : s \in DOMAIN ht3.dir_} |-> @[a]],
                 !.num_buckets_ = @ + 1]

\* ExtendibleHashTable::Insert: the table after the call.
RECURSIVE HashInsert(_, _, _)
HashInsert(ht, key, value) ==
  LET index == DirIndexOf(ht, key)
      bi == BucketInsert(ht.buckets[ht.dir_[index]], key, value)
  IN IF bi.ok
     THEN [ht EXCEPT !.buckets[ht.dir_[index]] = bi.b]
     ELSE HashInsert(SplitBucket(ht, index), key, value)

\* ExtendibleHashTable::Find
HashFind(ht, key) == BucketFind(ht.buckets[ht.dir_[DirIndexOf(ht, key)]], key)

\* ExtendibleHashTable::Remove: the return value and the table after it.
HashRemove(ht, key) ==
  LET id == ht.dir_[DirIndexOf(ht, key)]
      br == BucketRemove(ht.buckets[id], key)
  IN [ok |-> br.ok, ht |-> [ht EXCEPT !.buckets[id] = br.b]]

\* ExtendibleHashTable(bucket_size): one slot, one empty bucket of depth 0.
InitHash ==
  /\ global_depth_ = 0
  /\ dir_ = [i \in {0} |-> 0]
  /\ buckets = [a \in {0} |-> Bucket(0)]
  /\ num_buckets_ = 1
  /\ latest = [k \in Keys |-> ABSENT]
  /\ found = NoFound

\* A call of Insert.
ExtendibleInsert(key, value) ==
  LET ht == HashInsert(Table, key, value) IN
  /\ global_depth_' = ht.global_depth_
  /\ dir_' = ht.dir_
  /\ buckets' = ht.buckets
  /\ num_buckets_' = ht.num_buckets_
  /\ latest' = [latest EXCEPT ![key] = value]
  /\ found' = <<"Insert", key, TRUE, value>>

\* A call of Remove.
ExtendibleRemove(key) ==
  LET r == HashRemove(Table, key) IN
  /\ buckets' = r.ht.buckets
  /\ latest' = [latest EXCEPT ![key] = ABSENT]
  /\ found' = <<"Remove", key, r.ok, ABSENT>>
  /\ UNCHANGED <<global_depth_, dir_, num_buckets_>>

\* A call of Find.
ExtendibleFind(key) ==
  /\ found' = <<"Find", key>> \o HashFind(Table, key)
  /\ UNCHANGED <<global_depth_, dir_, buckets, num_buckets_, latest>>

\* ------------------------------------------------------------- specification
\* Every transaction begins GROWING with no lock and no queue exists.  The
\* isolation level is the same for all: a level decides only the checks of
\* the transaction's own calls.
InitLocks ==
  /\ state = [t \in Txns |-> "GROWING"]
  /\ iso \in {[t \in Txns |-> level] : level \in IsolationLevels}
  /\ table_lock_map_ = <<>>
  /\ row_lock_map_ = <<>>
  /\ tls = [t \in Txns |-> [m \in LockModes |-> {}]]
  /\ rls = [t \in Txns |-> [m \in RowModes |-> {}]]
  /\ wait = [t \in Txns |-> NoWait]
  /\ notified = {}
  /\ outcome = NoOutcome

\* ==================================================================== B+ tree
\* The tree works on pages of the buffer pool.  A state s of the tree is the
\* record of its variables (BT below): the pages, root_page_id_, root_latch_,
\* the threads inside a call and the first failure met.  The operators below
\* take such a record and give the record after the statement they model.
TreeKeys   == 1..NumTreeKeys
TreeValues == 1..NumTreeValues
TreePageIds == 1..MaxTreePages      \* page 0 is the header page
Threads    == 1..NumThreads
NoLatch    == [w |-> 0, r |-> {}]   \* a ReaderWriterLatch nobody holds
NONE       == "none"

\* A page NewPage hands out: zeroed memory, pinned once.
ZeroPage(max) ==
  [page_type_ |-> "INVALID", size_ |-> 0, max_size_ |-> 0, parent_page_id_ |-> 0,
   next_page_id_ |-> 0, array_ |-> [i \in 1..max |-> <<0, 0>>],
   pin_count_ |-> 1, latch |-> NoLatch]

\* The first failure: an assertion that fails, a fetch of a page that does
\* not exist, a latch the thread already holds, a page overrun.
Fault(s, what) == IF s.fault = NONE THEN [s EXCEPT !.fault = what] ELSE s

\* BPlusTreePage::GetMinSize
GetMinSize(n) == (n.max_size_ + 1) \div 2

\* BPlusTreePage::IsRootPage and IsLeafPage
IsRootPage(n) == n.parent_page_id_ = INVALID_PAGE_ID
IsLeafPage(n) == n.page_type_ = "LEAF"

\* KeyAt(index) and ValueAt(index) of the page with id p.
KeyAt(s, p, index)   == s.pg[p].array_[index + 1][1]
ValueAt(s, p, index) == s.pg[p].array_[index + 1][2]

\* buffer_pool_manager_->FetchPage(p): one more pin.
FetchPage(s, p) ==
  IF s.fault # NONE THEN s
  ELSE IF p \notin DOMAIN s.pg THEN Fault(s, "fetch of a page that does not exist")
  ELSE [s EXCEPT !.pg[p].pin_count_ = @ + 1]

\* buffer_pool_manager_->UnpinPage(p, is_dirty)
UnpinPage(s, p) ==
  IF s.fault # NONE \/ p \notin DOMAIN s.pg \/ s.pg[p].pin_count_ = 0 THEN s
  ELSE [s EXCEPT !.pg[p].pin_count_ = @ - 1]

\* The page id buffer_pool_manager_->NewPage hands out: AllocatePage counts
\* up and gives no id twice.
NewPageId(s) ==
  IF s.allocated >= MaxTreePages THEN INVALID_PAGE_ID ELSE s.allocated + 1

\* NewPage followed by Init(page_id, parent_id, max_size) of the new node.
NewNode(s, type, parent_id, max) ==
  LET p == NewPageId(s) IN
  IF s.fault # NONE THEN s
  ELSE IF p = INVALID_PAGE_ID THEN Fault(s, "bound")
  ELSE [s EXCEPT !.allocated = p,
                 !.pg = @ @@ (p :> [ZeroPage(max) EXCEPT !.page_type_ = type,
                                                          !.max_size_ = max,
                                                          !.parent_page_id_ = parent_id,
                                                          !.next_page_id_ = INVALID_PAGE_ID])]

\* buffer_pool_manager_->DeletePage(p): a pinned page stays.
DeletePage(s, p) ==
  IF s.fault # NONE \/ p \notin DOMAIN s.pg \/ s.pg[p].pin_count_ > 0 THEN s
  ELSE [s EXCEPT !.pg = [q \in DOMAIN @ \ {p} |-> @[q]]]

\* Insert(index, key, value) of a leaf or an internal page.
PageInsert(s, p, index, key, value) ==
  LET n == s.pg[p] IN
  IF s.fault # NONE THEN s
  ELSE IF ~(0 <= index /\ index <= n.size_) THEN Fault(s, "assert: index out of range")
  ELSE IF n.size_ = n.max_size_ THEN Fault(s, "assert: node is full")
  ELSE [s EXCEPT !.pg[p].size_ = @ + 1,
                 !.pg[p].array_ = SubSeq(@, 1, index) \o <<<<key, value>>>> \o
                                  SubSeq(@, index + 1, n.size_) \o
                                  SubSeq(@, n.size_ + 2, Len(@))]

\* Delete(index) of a leaf or an internal page; the last entry stays in
\* memory behind the new size.
PageDelete(s, p, index) ==
  LET n == s.pg[p] IN
  IF s.fault # NONE THEN s
  ELSE IF ~(0 <= index /\ index <= n.size_) THEN Fault(s, "assert: index out of range")
  ELSE IF n.size_ = 0 THEN Fault(s, "assert: node is empty")
  ELSE IF index = n.size_ THEN Fault(s, "copy of a range that ends before it starts")
  ELSE [s EXCEPT !.pg[p].size_ = @ - 1,
                 !.pg[p].array_ = SubSeq(@, 1, index) \o SubSeq(@, index + 2, n.size_) \o
                                  SubSeq(@, n.size_, Len(@))]

\* SetKeyAt(index, key)
SetKeyAt(s, p, index, key) ==
  IF s.fault # NONE THEN s
  ELSE IF ~(0 <= index /\ index < s.pg[p].max_size_) THEN Fault(s, "assert: index out of range")
  ELSE [s EXCEPT !.pg[p].array_[index + 1][1] = key]

\* Reparent that leaves the page it fetched pinned.
ReparentPinned(s, p, parent_id) ==
  LET s1 == FetchPage(s, p) IN
  IF s1.fault # NONE THEN s1
  ELSE [s1 EXCEPT !.pg[p].parent_page_id_ = parent_id]

\* SetParentPageId of page p through FetchPage and UnpinPage.
Reparent(s, p, parent_id) ==
  LET s1 == FetchPage(s, p) IN
  IF s1.fault # NONE THEN s1
  ELSE UnpinPage([s1 EXCEPT !.pg[p].parent_page_id_ = parent_id], p)

\* std::copy of the entries from..to-1 of page src to page dst at index at.
CopyEntries(s, src, from, to, dst, at) ==
  IF s.fault # NONE THEN s
  ELSE IF at + (to - from) > Len(s.pg[dst].array_) THEN Fault(s, "page overrun")
  ELSE [s EXCEPT !.pg[dst].array_ = SubSeq(@, 1, at) \o
                                     SubSeq(s.pg[src].array_, from + 1, to) \o
                                     SubSeq(@, at + (to - from) + 1, Len(@))]

\* SetParentPageId(parent_id) of the children at the indexes i..size-1 of
\* page p, each through FetchPage and UnpinPage.
RECURSIVE ReparentChildren(_, _, _, _)
ReparentChildren(s, p, i, parent_id) ==
  IF s.fault # NONE \/ i >= s.pg[p].size_ THEN s
  ELSE ReparentChildren(Reparent(s, ValueAt(s, p, i), parent_id), p, i + 1, parent_id)

\* Split that leaves the leaf's next_page_id as it was.
LeafSplitUnlinked(s, p, other) ==
  LET size == s.pg[p].size_
      s1   == CopyEntries(s, p, size \div 2, size, other, 0)
  IN IF s1.fault # NONE THEN s1
     ELSE [s1 EXCEPT !.pg[p].size_ = size \div 2,
                     !.pg[other].size_ = size - size \div 2,
                     !.pg[other].next_page_id_ = s.pg[p].next_page_id_]

\* BPlusTreeLeafPage::Split(other_page)
LeafSplit(s, p, other) ==
  LET size == s.pg[p].size_
      s1   == CopyEntries(s, p, size \div 2, size, other, 0)
  IN IF s1.fault # NONE THEN s1
     ELSE [s1 EXCEPT !.pg[p].size_ = size \div 2,
                     !.pg[other].size_ = size - size \div 2,
                     !.pg[other].next_page_id_ = s.pg[p].next_page_id_,
                     !.pg[p].next_page_id_ = other]

\* BPlusTreeLeafPage::Merge(other_page)
LeafMerge(s, p, other) ==
  LET s1 == CopyEntries(s, other, 0, s.pg[other].size_, p, s.pg[p].size_)
  IN IF s1.fault # NONE THEN s1
     ELSE [s1 EXCEPT !.pg[p].size_ = @ + s.pg[other].size_,
                     !.pg[p].next_page_id_ = s.pg[other].next_page_id_]

\* BPlusTreeLeafPage::ShiftFrom(other_page)
LeafShiftFrom(s, p, other) ==
  PageDelete(PageInsert(s, p, s.pg[p].size_, KeyAt(s, other, 0), ValueAt(s, other, 0)),
             other, 0)

\* BPlusTreeLeafPage::ShiftTo(other_page)
LeafShiftTo(s, p, other) ==
  LET last == s.pg[p].size_ - 1 IN
  IF s.fault # NONE THEN s
  ELSE IF last < 0 THEN Fault(s, "assert: index out of range")
  ELSE PageDelete(PageInsert(s, other, 0, KeyAt(s, p, last), ValueAt(s, p, last)), p, last)

\* BPlusTreeInternalPage::Split(other_page, end_key, end_value)
InternalSplit(s, p, other, end_key, end_value) ==
  LET size == s.pg[p].size_
      s1   == CopyEntries(s, p, size \div 2 + 1, size, other, 0)
  IN IF s1.fault # NONE THEN s1
     ELSE PageInsert([s1 EXCEPT !.pg[p].size_ = size \div 2 + 1,
                                !.pg[other].size_ = size - size \div 2 - 1],
                     other, size - size \div 2 - 1, end_key, end_value)

\* BPlusTreeInternalPage::Merge(other_page, merge_key, buffer_pool_manager)
InternalMerge(s, p, other, merge_key) ==
  LET s1 == ReparentChildren(s, other, 0, p)
      s2 == CopyEntries(s1, other, 0, s.pg[other].size_, p, s.pg[p].size_)
      s3 == SetKeyAt(s2, p, s.pg[p].size_, merge_key)
  IN IF s3.fault # NONE THEN s3
     ELSE [s3 EXCEPT !.pg[p].size_ = @ + s.pg[other].size_]

\* BPlusTreeInternalPage::ShiftFrom(other_page, buffer_pool_manager)
InternalShiftFrom(s, p, other) ==
  LET page_id == ValueAt(s, other, 0)
      s1      == Reparent(s, page_id, p)
  IN PageDelete(PageInsert(s1, p, s.pg[p].size_, KeyAt(s, other, 0), page_id), other, 0)

\* BPlusTreeInternalPage::ShiftTo(other_page, buffer_pool_manager)
InternalShiftTo(s, p, other) ==
  LET last    == s.pg[p].size_ - 1
      page_id == ValueAt(s, p, last)
      s1      == Reparent(s, page_id, other)
  IN IF s.fault # NONE THEN s
     ELSE IF last < 0 THEN Fault(s, "assert: index out of range")
     ELSE PageDelete(PageInsert(s1, other, 0, KeyAt(s, p, last), page_id), p, last)

\* The binary search of GetPosOnInternalPage (l = 1) and GetPosOnLeafPage
\* (l = 0): the index before the first entry of [l, r) whose key is above key.
RECURSIVE GetPos(_, _, _, _, _)
GetPos(s, p, key, l, r) ==
  IF l >= r THEN l - 1
  ELSE LET mid == (l + r) \div 2 IN
       IF KeyAt(s, p, mid) <= key THEN GetPos(s, p, key, mid + 1, r)
       ELSE GetPos(s, p, key, l, mid)

GetPosOnInternalPage(s, p, key) == GetPos(s, p, key, 1, s.pg[p].size_)
GetPosOnLeafPage(s, p, key)     == GetPos(s, p, key, 0, s.pg[p].size_)

\* A thread outside every call of the tree.  Inside a call: the operation and
\* its arguments, the page FindLeaf is about to latch and the page above it,
\* the transaction's page set and deleted page set, and for Remove the node
\* CoalesceOrRedistribute works on, the sibling it is about to latch and the
\* calls of CoalesceOrRedistribute that wait for the one above them to return.
IdleThread ==
  [pc |-> "idle", op |-> NONE, key |-> 0, value |-> 0, page |-> NULL, parent |-> NULL,
   page_set |-> <<>>, deleted |-> {}, cur |-> NULL, want |-> NULL, frames |-> <<>>,
   ret |-> 0]

\* The call returns ret: 1 for true, 0 for false or void; GetValue returns
\* the value or ABSENT.  The thread keeps the name of the call and ret, and
\* the transaction its page set.
Return(s, t, ret) ==
  IF s.fault # NONE THEN s
  ELSE [s EXCEPT !.th[t] = [IdleThread EXCEPT !.op = s.th[t].op, !.ret = ret,
                                              !.page_set = s.th[t].page_set]]

\* page->WUnlatch()
WUnlatch(s, p) == IF s.fault # NONE THEN s ELSE [s EXCEPT !.pg[p].latch.w = 0]

\* ReleaseQueueLatch that skips the nullptr entry: root_latch_ stays locked.
ReleaseQueueLatchPagesOnly(s, t) ==
  LET page_set == s.th[t].page_set
      held     == {page_set[i] : i \in DOMAIN page_set}
  IN IF s.fault # NONE THEN s
     ELSE [s EXCEPT !.pg = [q \in DOMAIN @ |->
                              IF q \in held
                              THEN [@[q] EXCEPT !.latch.w = 0,
                                                !.pin_count_ = IF @ > 0 THEN @ - 1 ELSE 0]
                              ELSE @[q]],
                    !.th[t].page_set = <<>>]

\* BPlusTree::ReleaseQueueLatch
ReleaseQueueLatch(s, t) ==
  LET page_set == s.th[t].page_set
      held     == {page_set[i] : i \in DOMAIN page_set}
  IN IF s.fault # NONE THEN s
     ELSE [s EXCEPT !.root_latch_.w = IF NULL \in held THEN 0 ELSE @,
                    !.pg = [q \in DOMAIN @ |->
                              IF q \in held
                              THEN [@[q] EXCEPT !.latch.w = 0,
                                                !.pin_count_ = IF @ > 0 THEN @ - 1 ELSE 0]
                              ELSE @[q]],
                    !.th[t].page_set = <<>>]

\* BPlusTree::InsertIntoParent
RECURSIVE InsertIntoParent(_, _, _, _, _)
InsertIntoParent(s, t, node, key, new_node) ==
  IF s.fault # NONE THEN s
  ELSE IF IsRootPage(s.pg[node]) THEN
    LET root == NewPageId(s)
        s1   == NewNode(s, "INTERNAL", INVALID_PAGE_ID, s.internal_max_size_)
        s2   == PageInsert(PageInsert(s1, root, 0, KeyAt(s, node, 0), node),
                           root, 1, key, new_node)
    IN IF s2.fault # NONE THEN s2
       ELSE ReleaseQueueLatch(
              UnpinPage([s2 EXCEPT !.root_page_id_ = root,
                                   !.pg[node].parent_page_id_ = root,
                                   !.pg[new_node].parent_page_id_ = root], root), t)
  ELSE
    LET parent == s.pg[node].parent_page_id_
        s1     == FetchPage(s, parent)
    IN IF s1.fault # NONE THEN s1
       ELSE IF s1.pg[parent].size_ < s1.pg[parent].max_size_ THEN
         UnpinPage(ReleaseQueueLatch(
                     PageInsert(s1, parent, GetPosOnInternalPage(s1, parent, key) + 1,
                                key, new_node), t), parent)
       ELSE
         LET new_parent == NewPageId(s1)
             s2   == NewNode(s1, "INTERNAL", s1.pg[parent].parent_page_id_,
                             s1.internal_max_size_)
             last == s1.pg[parent].size_ - 1
             less == key < KeyAt(s1, parent, last)
             end_key   == IF less THEN KeyAt(s1, parent, last) ELSE key
             end_value == IF less THEN ValueAt(s1, parent, last) ELSE new_node
             s3   == PageDelete(s2, parent, last)
             s4   == IF less
                     THEN PageInsert(s3, parent, GetPosOnInternalPage(s3, parent, key) + 1,
                                     key, new_node)
                     ELSE s2
             s5   == InternalSplit(s4, parent, new_parent, end_key, end_value)
             s6   == ReparentChildren(s5, new_parent, 0, new_parent)
         IN IF s6.fault # NONE THEN s6
            ELSE UnpinPage(UnpinPage(
                   InsertIntoParent(s6, t, parent, KeyAt(s6, new_parent, 0), new_parent),
                   parent), new_parent)

\* BPlusTree::Insert from the return of FindLeaf on: th[t].page is the leaf.
InsertAtLeaf(s, t) ==
  LET leaf  == s.th[t].page
      key   == s.th[t].key
      pos   == GetPosOnLeafPage(s, leaf, key)
      s1    == PageInsert(s, leaf, pos + 1, key, s.th[t].value)
      new_leaf == NewPageId(s1)
      s2    == NewNode(s1, "LEAF", s1.pg[leaf].parent_page_id_, s1.leaf_max_size_)
      s3    == LeafSplit(s2, leaf, new_leaf)
  IN IF s.fault # NONE THEN s
     ELSE IF pos # -1 /\ KeyAt(s, leaf, pos) = key
       THEN Return(UnpinPage(WUnlatch(ReleaseQueueLatch(s, t), leaf), leaf), t, 0)
     ELSE IF s1.fault # NONE THEN s1
     ELSE IF s1.pg[leaf].size_ # s1.pg[leaf].max_size_
       THEN Return(UnpinPage(WUnlatch(ReleaseQueueLatch(s1, t), leaf), leaf), t, 1)
     ELSE IF s3.fault # NONE THEN s3
     ELSE Return(UnpinPage(UnpinPage(WUnlatch(
                   InsertIntoParent(s3, t, leaf, KeyAt(s3, new_leaf, 0), new_leaf),
                   leaf), leaf), new_leaf), t, 1)

\* BPlusTree::Redistribute
Redistribute(s, left_node, right_node, parent, right_pos, from_previous) ==
  LET s1 == IF IsLeafPage(s.pg[left_node])
            THEN IF from_previous THEN LeafShiftTo(s, left_node, right_node)
                                  ELSE LeafShiftFrom(s, left_node, right_node)
            ELSE IF from_previous THEN InternalShiftTo(s, left_node, right_node)
                                  ELSE InternalShiftFrom(s, left_node, right_node)
  IN IF s1.fault # NONE THEN s1
     ELSE SetKeyAt(s1, parent, right_pos, KeyAt(s1, right_node, 0))

\* The statements of BPlusTree::Remove after its call of
\* CoalesceOrRedistribute(leaf), which returned ret.
RemoveReturns(s, t, ret) ==
  LET leaf    == s.th[t].page
      deleted == s.th[t].deleted \cup (IF ret = 1 THEN {leaf} ELSE {})
      s1      == UnpinPage(WUnlatch(s, leaf), leaf)
      gone    == {p \in deleted \cap DOMAIN s1.pg : s1.pg[p].pin_count_ = 0}
  IN IF s1.fault # NONE THEN s1
     ELSE Return([s1 EXCEPT !.pg = [q \in DOMAIN @ \ gone |-> @[q]]], t, 0)

\* The statements that follow a call of Coalesce in CoalesceOrRedistribute,
\* for every call that waits, the innermost first; ret is what the call of
\* CoalesceOrRedistribute one level up returned.
RECURSIVE Unwind(_, _, _)
Unwind(s, t, ret) ==
  LET frames == s.th[t].frames
      f      == frames[Len(frames)]
      s1     == [s EXCEPT !.th[t].frames = SubSeq(frames, 1, Len(frames) - 1),
                          !.th[t].deleted = IF ret = 1 THEN @ \cup {f.parent} ELSE @]
  IN IF s.fault # NONE THEN s
     ELSE IF frames = <<>> THEN RemoveReturns(s, t, ret)
     ELSE Unwind(UnpinPage(WUnlatch(UnpinPage(s1, f.parent), f.neighbor), f.neighbor),
                 t, f.ret)

\* BPlusTree::CoalesceOrRedistribute(node) for node = th[t].cur, up to the
\* point where it is about to latch a sibling, or to its return.
RECURSIVE CoalesceOrRedistribute(_, _)
CoalesceOrRedistribute(s, t) ==
  LET node   == s.th[t].cur
      n      == s.pg[node]
      child  == ValueAt(s, node, 0)
      s0     == FetchPage(s, child)
      parent == n.parent_page_id_
      s1     == FetchPage(s, parent)
      pos    == GetPosOnInternalPage(s1, parent, KeyAt(s, node, 0))
      neighbor == IF pos > 0 THEN ValueAt(s1, parent, pos - 1)
                  ELSE ValueAt(s1, parent, pos + 1)
      s2     == FetchPage(s1, neighbor)
  IN IF s.fault # NONE THEN s
     ELSE IF IsRootPage(n) THEN
       IF ~IsLeafPage(n) /\ n.size_ = 1 THEN
         IF s0.fault # NONE THEN s0
         ELSE Unwind(ReleaseQueueLatch(
                       UnpinPage([s0 EXCEPT !.pg[child].parent_page_id_ = INVALID_PAGE_ID,
                                            !.root_page_id_ = child], child), t), t, 1)
       ELSE IF IsLeafPage(n) /\ n.size_ = 0 THEN
         Unwind(ReleaseQueueLatch([s EXCEPT !.root_page_id_ = INVALID_PAGE_ID], t), t, 1)
       ELSE Unwind(ReleaseQueueLatch(s, t), t, 0)
     ELSE IF n.size_ >= GetMinSize(n) THEN Unwind(ReleaseQueueLatch(s, t), t, 0)
     ELSE IF s1.fault # NONE THEN s1
     ELSE IF pos > 0 \/ pos # s1.pg[parent].size_ - 1 THEN
       IF s2.fault # NONE THEN s2
       ELSE [s2 EXCEPT !.th[t].want = neighbor, !.th[t].pc = "neighbor_latch"]
     ELSE Unwind(s1, t, 0)

\* CoalesceOrRedistribute(node) from neighbor_page->WLatch() on, for
\* node = th[t].cur and the sibling th[t].want; Coalesce is part of it.
WithNeighbor(s, t) ==
  LET node     == s.th[t].cur
      neighbor == s.th[t].want
      parent   == s.pg[node].parent_page_id_
      pos      == GetPosOnInternalPage(s, parent, KeyAt(s, node, 0))
      left     == pos > 0
      s1       == [s EXCEPT !.pg[neighbor].latch.w = t, !.th[t].want = NULL]
      nb       == s1.pg[neighbor]
      done(x)  == UnpinPage(WUnlatch(UnpinPage(ReleaseQueueLatch(x, t), parent),
                                     neighbor), neighbor)
      left_node   == IF left THEN neighbor ELSE node
      right_node  == IF left THEN node ELSE neighbor
      right_pos   == IF left THEN pos ELSE pos + 1
      s2       == IF left THEN s1 ELSE [s1 EXCEPT !.th[t].deleted = @ \cup {neighbor}]
      s3       == IF IsLeafPage(s2.pg[right_node])
                  THEN LeafMerge(s2, left_node, right_node)
                  ELSE InternalMerge(s2, left_node, right_node, KeyAt(s2, parent, right_pos))
      s4       == PageDelete(s3, parent, right_pos)
  IN IF s.fault # NONE THEN s
     ELSE IF nb.size_ > GetMinSize(nb)
       THEN Unwind(done(Redistribute(s1, left_node, right_node, parent, right_pos, left)),
                   t, 0)
     ELSE IF s4.fault # NONE THEN s4
     ELSE CoalesceOrRedistribute(
            [s4 EXCEPT !.th[t].cur = parent,
                       !.th[t].frames = Append(@, [parent |-> parent, neighbor |-> neighbor,
                                                   ret |-> IF left THEN 1 ELSE 0])], t)

\* BPlusTree::Remove from the return of FindLeaf on: th[t].page is the leaf.
RemoveAtLeaf(s, t) ==
  LET leaf == s.th[t].page
      key  == s.th[t].key
      pos  == GetPosOnLeafPage(s, leaf, key)
  IN IF s.fault # NONE THEN s
     ELSE IF pos = -1 \/ KeyAt(s, leaf, pos) # key
       THEN Return(UnpinPage(WUnlatch(ReleaseQueueLatch(s, t), leaf), leaf), t, 0)
     ELSE CoalesceOrRedistribute(
            [PageDelete(s, leaf, pos) EXCEPT !.th[t].cur = leaf, !.th[t].frames = <<>>], t)

\* The test of FindLeaf that lets it release the latches above a node: on the
\* root and on a child, for kDelete and for kInsert.
IsSafe(n, op, is_root) ==
  IF op = "Remove"
  THEN IF is_root THEN n.size_ > 2 ELSE n.size_ > GetMinSize(n)
  ELSE n.size_ + (IF IsLeafPage(n) THEN 1 ELSE 0) < n.max_size_

\* Thread t calls op(key, value): it is about to lock root_latch_.
Call(s, t, op, key, value) ==
  [s EXCEPT !.th[t] = [IdleThread EXCEPT !.pc = "root_latch", !.op = op, !.key = key,
                                         !.value = value]]

\* The latch thread t is about to take is free for it.
CanLatch(s, t) ==
  LET me    == s.th[t]
      latch == IF me.pc = "root_latch" THEN s.root_latch_
               ELSE IF me.pc = "page_latch" THEN s.pg[me.page].latch
               ELSE s.pg[me.want].latch
  IN /\ me.pc \in {"root_latch", "page_latch", "neighbor_latch"}
     /\ latch.w = 0
     /\ me.op = "GetValue" \/ latch.r = {}

\* The latch thread t is about to take is one it holds itself.
LatchesItself(s, t) ==
  LET me == s.th[t] IN
  \/ me.pc = "page_latch" /\ s.pg[me.page].latch.w = t
  \/ me.pc = "neighbor_latch" /\ s.pg[me.want].latch.w = t

\* Insert, Remove and GetValue from root_latch_.WLock() or RLock() up to the
\* first page latch of FindLeaf.
AtRootLatch(s, t) ==
  LET me   == s.th[t]
      s1   == [s EXCEPT !.root_latch_.w = t, !.th[t].page_set = <<NULL>>]
      root == NewPageId(s1)
      s2   == PageInsert(NewNode(s1, "LEAF", INVALID_PAGE_ID, s.leaf_max_size_),
                         root, 0, me.key, me.value)
      find(x) == [FetchPage(x, x.root_page_id_) EXCEPT !.th[t].page = x.root_page_id_,
                                                       !.th[t].parent = NULL,
                                                       !.th[t].pc = "page_latch"]
  IN IF me.op = "GetValue" THEN find([s EXCEPT !.root_latch_.r = @ \cup {t}])
     ELSE IF s.root_page_id_ # INVALID_PAGE_ID THEN find(s1)
     ELSE IF me.op = "Remove" THEN Return(ReleaseQueueLatch(s1, t), t, 0)
     ELSE IF s2.fault # NONE THEN s2
     ELSE Return(ReleaseQueueLatch(UnpinPage([s2 EXCEPT !.root_page_id_ = root], root), t),
                 t, 1)

\* FindLeaf of Insert and Remove from the WLatch of th[t].page up to the
\* WLatch of its child; at a leaf, the rest of the call up to the next latch.
AtPageLatch(s, t) ==
  LET me    == s.th[t]
      page  == me.page
      s1    == [s EXCEPT !.pg[page].latch.w = t,
                         !.th[t].page_set = IF me.parent = NULL THEN @
                                            ELSE Append(@, me.parent)]
      s2    == IF IsSafe(s.pg[page], me.op, me.parent = NULL)
               THEN ReleaseQueueLatch(s1, t) ELSE s1
      child == ValueAt(s, page, GetPosOnInternalPage(s, page, me.key))
  IN IF IsLeafPage(s.pg[page])
     THEN IF me.op = "Insert" THEN InsertAtLeaf(s2, t) ELSE RemoveAtLeaf(s2, t)
     ELSE [FetchPage(s2, child) EXCEPT !.th[t].page = child, !.th[t].parent = page]

\* FindLeaf of GetValue from the RLatch of th[t].page up to the RLatch of its
\* child; at a leaf, the rest of GetValue.
AtPageRLatch(s, t) ==
  LET me    == s.th[t]
      page  == me.page
      s1    == [s EXCEPT !.pg[page].latch.r = @ \cup {t}]
      s2    == IF me.parent = NULL
               THEN [s1 EXCEPT !.root_latch_.r = @ \ {t}]
               ELSE UnpinPage([s1 EXCEPT !.pg[me.parent].latch.r = @ \ {t}], me.parent)
      child == ValueAt(s, page, GetPosOnInternalPage(s, page, me.key))
      pos   == GetPosOnLeafPage(s, page, me.key)
      hit   == pos # -1 /\ KeyAt(s, page, pos) = me.key
  IN IF IsLeafPage(s.pg[page])
     THEN Return(UnpinPage([s2 EXCEPT !.pg[page].latch.r = @ \ {t}], page), t,
                 IF hit THEN ValueAt(s, page, pos) ELSE ABSENT)
     ELSE [FetchPage(s2, child) EXCEPT !.th[t].page = child, !.th[t].parent = page]

\* One step of thread t: it takes the latch it is about to take and runs up
\* to the next one.  A failure stops the thread where it is.
Step(s, t) ==
  LET me == s.th[t]
      s1 == IF LatchesItself(s, t) THEN Fault(s, "latch the thread holds")
            ELSE IF me.pc = "root_latch" THEN AtRootLatch(s, t)
            ELSE IF me.pc = "neighbor_latch" THEN WithNeighbor(s, t)
            ELSE IF me.op = "GetValue" THEN AtPageRLatch(s, t)
            ELSE AtPageLatch(s, t)
  IN IF s1.fault # NONE THEN [s1 EXCEPT !.th[t].pc = "hung"] ELSE s1

\* The steps of thread t up to the return of its call, while no other thread
\* is in its way.
RECURSIVE Run(_, _)
Run(s, t) ==
  IF CanLatch(s, t) \/ LatchesItself(s, t) THEN Run(Step(s, t), t) ELSE s

\* Begin(): the leftmost leaf, NULL for an empty tree.
RECURSIVE LeftMost(_, _)
LeftMost(s, page_id) ==
  IF page_id = INVALID_PAGE_ID THEN NULL
  ELSE IF IsLeafPage(s.pg[page_id]) THEN page_id
  ELSE LeftMost(s, ValueAt(s, page_id, 0))

\* The entries an iterator at (leaf, pos) gives by operator* and operator++
\* until IsEnd(), at most n of them.
RECURSIVE Iterate(_, _, _, _)
Iterate(s, leaf, pos, n) ==
  IF leaf = NULL \/ n = 0 THEN <<>>
  ELSE <<s.pg[leaf].array_[pos + 1]>> \o
       (IF pos + 1 < s.pg[leaf].size_ THEN Iterate(s, leaf, pos + 1, n - 1)
        ELSE IF s.pg[leaf].next_page_id_ # INVALID_PAGE_ID
             THEN Iterate(s, s.pg[leaf].next_page_id_, 0, n - 1)
             ELSE <<>>)

\* The tree as one record, and the variables after a call or a step.
BT ==
  [pg |-> tree_pages, root_page_id_ |-> root_page_id_, root_latch_ |-> root_latch_,
   th |-> threads, fault |-> fault, allocated |-> allocated,
   leaf_max_size_ |-> leaf_max_size_, internal_max_size_ |-> internal_max_size_]

BTNext(s) ==
  /\ s.fault # "bound"
  /\ tree_pages' = s.pg
  /\ root_page_id_' = s.root_page_id_
  /\ root_latch_' = s.root_latch_
  /\ threads' = s.th
  /\ fault' = s.fault
  /\ allocated' = s.allocated
  /\ UNCHANGED <<leaf_max_size_, internal_max_size_>>

\* What the call op(key, value) makes of the mapping the tree is to hold.
Store(m, op, key, value) ==
  IF op = "Insert" THEN (IF m[key] = ABSENT THEN [m EXCEPT ![key] = value] ELSE m)
  ELSE IF op = "Remove" THEN [m EXCEPT ![key] = ABSENT]
  ELSE m

\* BPlusTree(name, buffer_pool_manager, comparator, leaf_max_size,
\* internal_max_size): an empty tree, no thread inside.
InitTree(leaf_sizes, internal_sizes) ==
  /\ leaf_max_size_ \in leaf_sizes
  /\ internal_max_size_ \in internal_sizes
  /\ tree_pages = <<>>
  /\ allocated = 0
  /\ root_page_id_ = INVALID_PAGE_ID
  /\ root_latch_ = NoLatch
  /\ threads = [t \in Threads |-> IdleThread]
  /\ fault = NONE
  /\ stored = [k \in TreeKeys |-> ABSENT]

\* A call of Insert, Remove or GetValue by thread 1 while no other thread is
\* inside the tree, from its first statement to its return.
BPlusTreeCall(op, key, value) ==
  /\ \A t \in Threads : threads[t].pc = "idle"
  /\ BTNext(Run(Call(BT, 1, op, key, value), 1))
  /\ stored' = Store(stored, op, key, value)

\* The keys thread t works on: the threads' key ranges are disjoint.
KeysOf(t) == {k \in 1..MaxThreadKey : (k - 1) % NumThreads = t - 1}

\* Thread t enters Insert or Remove.
ThreadCall(t, op, key, value) ==
  /\ threads[t].pc = "idle"
  /\ fault = NONE
  /\ BTNext(Call(BT, t, op, key, value))
  /\ UNCHANGED stored

\* Thread t takes the latch it waits for and runs up to the next one, or to
\* the return of its call.
ThreadStep(t) ==
  /\ CanLatch(BT, t) \/ LatchesItself(BT, t)
  /\ BTNext(Step(BT, t))
  /\ stored' = IF threads'[t].pc = "idle"
               THEN Store(stored, threads[t].op, threads[t].key, threads[t].value)
               ELSE stored

\* ============================================================ index iterator
\* Begin() from page page_id down: every page is fetched, an internal page is
\* unpinned before its first child is fetched, the leaf stays pinned.  No page
\* is latched.  The result is the tree and the leaf.
RECURSIVE BeginAt(_, _)
BeginAt(s, page_id) ==
  LET s1 == FetchPage(s, page_id) IN
  IF s1.fault # NONE THEN [s |-> s1, leaf |-> NULL]
  ELSE IF IsLeafPage(s1.pg[page_id]) THEN [s |-> s1, leaf |-> page_id]
  ELSE IF ~(0 < s1.pg[page_id].size_)
       THEN [s |-> Fault(s1, "assert: internal page without a child"), leaf |-> NULL]
  ELSE BeginAt(UnpinPage(s1, page_id), ValueAt(s1, page_id, 0))

\* BPlusTree::Begin(): an iterator at the first entry of the leftmost leaf,
\* End() for an empty tree.
IteratorBegin ==
  /\ ~it_live
  /\ fault = NONE
  /\ LET b == IF root_page_id_ = INVALID_PAGE_ID THEN [s |-> BT, leaf |-> NULL]
              ELSE BeginAt(BT, root_page_id_)
     IN /\ BTNext(b.s)
        /\ it_leaf' = b.leaf
  /\ it_live' = TRUE
  /\ it_pos' = 0
  /\ UNCHANGED stored

\* IndexIterator::operator++: the next entry of the leaf, or the leaf is
\* unpinned and the next leaf fetched, nullptr after the last one.
IteratorNext ==
  /\ it_live
  /\ it_leaf # NULL
  /\ fault = NONE
  /\ IF it_pos + 1 < tree_pages[it_leaf].size_
     THEN /\ it_pos' = it_pos + 1
          /\ UNCHANGED <<it_leaf, tree_vars>>
     ELSE LET next_page_id == tree_pages[it_leaf].next_page_id_
              s1 == UnpinPage(BT, it_leaf)
          IN /\ IF next_page_id # INVALID_PAGE_ID
                THEN BTNext(FetchPage(s1, next_page_id)) /\ it_leaf' = next_page_id
                ELSE BTNext(s1) /\ it_leaf' = NULL
             /\ it_pos' = 0
             /\ UNCHANGED stored
  /\ UNCHANGED it_live

\* IndexIterator::~IndexIterator: the leaf is unpinned.
IteratorEnd ==
  /\ it_live
  /\ fault = NONE
  /\ IF it_leaf # NULL THEN BTNext(UnpinPage(BT, it_leaf)) ELSE BTNext(BT)
  /\ it_live' = FALSE
  /\ it_leaf' = NULL
  /\ it_pos' = 0
  /\ UNCHANGED stored

\* ====================================================== SeqScan and Insert
\* The scan's transaction, the insert's transaction and the table of both.
ScanTxn   == NumRowTxns
InsertTxn == NumTxns
TableOid  == Min(Tables)
ScanRids  == 1..NumScanRows

InitQuery ==
  /\ scan_pc = "new" /\ iter_ = 0 /\ lock_set = {} /\ returned = "none" /\ scan_ends = 0
  /\ first_ = FALSE /\ table_ = 0 /\ insert_ret = "none"

\* (*txn->GetSharedRowLockSet())[oid]
SharedRowLockSet(t, o) == {p[2] : p \in {q \in rls[t]["S"] : q[1] = o}}

\* The test of Next at the end of the table that never releases.
ReleasesAtEndNever(level) == FALSE

\* The test of Next at the end of the table: the locks are released.
ReleasesAtEnd(level) == level = "READ_COMMITTED"

\* Where the scan stands after a call of the lock manager inside `call':
\* the lock manager threw or returned false and the executor throws, the
\* thread waits on cv_, or the call goes on.
After(call, on) ==
  IF outcome'[1] = ScanTxn THEN "thrown"
  ELSE IF wait'[ScanTxn] # NoWait THEN call
  ELSE on

\* SeqScanExecutor::Init, up to the return or to the wait in LockTable.
SeqScanInit ==
  /\ scan_pc \in {"new", "ready"}
  /\ IF iso[ScanTxn] # "READ_UNCOMMITTED"
     THEN /\ LockTable(ScanTxn, "IS", TableOid)
          /\ scan_pc' = After("Init", "ready")
     ELSE /\ scan_pc' = "ready"
          /\ UNCHANGED lock_vars
  /\ iter_' = IF scan_pc' = "ready" THEN 0 ELSE iter_
  /\ returned' = IF scan_pc' = "ready" THEN "Init" ELSE "none"
  /\ lock_set' = {}
  /\ UNCHANGED <<scan_ends, first_, table_, insert_ret>>

\* SeqScanExecutor::Next before the end of the table: the tuple is taken,
\* the iterator moves on, the row is locked.
SeqScanNext ==
  /\ scan_pc = "ready"
  /\ iter_ < NumScanRows
  /\ iter_' = iter_ + 1
  /\ IF iso[ScanTxn] # "READ_UNCOMMITTED"
     THEN /\ LockRow(ScanTxn, "S", TableOid, iter_ + 1)
          /\ scan_pc' = After("Next", "ready")
     ELSE /\ scan_pc' = "ready"
          /\ UNCHANGED lock_vars
  /\ returned' = IF scan_pc' = "ready" THEN "true" ELSE returned
  /\ UNCHANGED <<lock_set, scan_ends, first_, table_, insert_ret>>

\* The thread of the scan wakes up in LockTable or LockRow.
SeqScanWake ==
  /\ scan_pc \in {"Init", "Next"}
  /\ Wake(ScanTxn)
  /\ scan_pc' = After(scan_pc, "ready")
  /\ iter_' = IF scan_pc = "Init" /\ scan_pc' = "ready" THEN 0 ELSE iter_
  /\ returned' = IF scan_pc' # "ready" THEN returned
                 ELSE IF scan_pc = "Init" THEN "Init" ELSE "true"
  /\ UNCHANGED <<lock_set, scan_ends, first_, table_, insert_ret>>

\* SeqScanExecutor::Next at the end of the table: false at once, or the copy
\* of the shared row lock set is taken.
SeqScanNextEnd ==
  /\ scan_pc = "ready"
  /\ iter_ = NumScanRows
  /\ scan_ends < MaxScanEnds
  /\ IF ReleasesAtEnd(iso[ScanTxn])
     THEN /\ scan_pc' = "end"
          /\ lock_set' = SharedRowLockSet(ScanTxn, TableOid)
          /\ UNCHANGED <<returned, scan_ends>>
     ELSE /\ returned' = "false"
          /\ scan_ends' = scan_ends + 1
          /\ UNCHANGED <<scan_pc, lock_set>>
  /\ UNCHANGED <<lock_vars, iter_, first_, table_, insert_ret>>

\* The loop of Next over lock_set, one UnlockRow each, in any order, then
\* UnlockTable and the return of false.
SeqScanUnlock ==
  /\ scan_pc = "end"
  /\ IF lock_set # {}
     THEN /\ \E lrid \in lock_set :
               /\ UnlockRow(ScanTxn, TableOid, lrid)
               /\ lock_set' = lock_set \ {lrid}
          /\ scan_pc' = After("end", "end")
          /\ UNCHANGED <<returned, scan_ends>>
     ELSE /\ UnlockTable(ScanTxn, TableOid)
          /\ scan_pc' = After("end", "ready")
          /\ returned' = IF scan_pc' = "ready" THEN "false" ELSE returned
          /\ scan_ends' = IF scan_pc' = "ready" THEN scan_ends + 1 ELSE scan_ends
          /\ UNCHANGED lock_set
  /\ UNCHANGED <<iter_, first_, table_, insert_ret>>

\* InsertExecutor::Init
InsertInit ==
  /\ table_ < MaxInserted
  /\ first_' = TRUE
  /\ UNCHANGED <<lock_vars, scan_pc, iter_, lock_set, returned, scan_ends, table_, insert_ret>>

\* InsertExecutor::Next on a table without an index: the child gives n tuples
\* and InsertTuple puts each into the heap.
InsertNext ==
  /\ insert_ret # "none" \/ first_
  /\ IF ~first_
     THEN insert_ret' = "false" /\ UNCHANGED <<first_, table_>>
     ELSE /\ first_' = FALSE
          /\ \E n \in 1..(MaxInserted - table_) : table_' = table_ + n
          /\ insert_ret' = "true"
  /\ UNCHANGED <<lock_vars, scan_pc, iter_, lock_set, returned, scan_ends>>

\* ============================================ HasCycle on a graph of its own
DetectTxns == 1..NumDetectTxns

\* The waits-for graphs over DetectTxns: no transaction waits for itself.
Graphs == SUBSET {e \in DetectTxns \X DetectTxns : e[1] # e[2]}

\* RunCycleDetection has built waits_for_ and txn_set_ from the queues.
InitDetect(graphs) ==
  /\ waits_for_ \in graphs
  /\ txn_set_ = TxnSetOf(waits_for_)
  /\ safe_set_ = {}
  /\ victim = INVALID_TXN_ID

\* One round of `for (txn_id_t txn_id; HasCycle(&txn_id);)': HasCycle finds a
\* cycle and the body takes the victim's edges out of waits_for_.
HasCycleRound ==
  LET h == HasCycle(Sorted(txn_set_), safe_set_, waits_for_) IN
  /\ h.res
  /\ victim' = h.victim
  /\ safe_set_' = h.safe
  /\ waits_for_' = {e \in waits_for_ : e[1] # h.victim /\ e[2] # h.victim}
  /\ UNCHANGED txn_set_

\* HasCycle finds no cycle: the loop ends and the sets are cleared.
HasCycleEnds ==
  LET h == HasCycle(Sorted(txn_set_), safe_set_, waits_for_) IN
  /\ txn_set_ # {}
  /\ ~h.res
  /\ victim' = INVALID_TXN_ID
  /\ waits_for_' = {}
  /\ safe_set_' = {}
  /\ txn_set_' = {}

\* ============================================================ Sort and TopN
ColumnValues == 0..(NumColumnValues - 1)
Tuples       == [1..NumColumns -> ColumnValues]
OrderByTypes == {"DEFAULT", "ASC", "DESC"}

\* The order-by lists: an entry is <<type, column>>, its expression the value
\* of the column.
OrderByLists == UNION {[1..n -> OrderByTypes \X (1..NumColumns)] : n \in 1..MaxOrderBys}

\* What a child may give: up to MaxChild tuples in any order.
ChildOutputs == UNION {[1..n -> Tuples] : n \in 0..MaxChild}

\* The lambda cmp of TopNExecutor::Init and of SortExecutor::Init: a goes
\* before b by the first order-by entry the two differ in.
RECURSIVE Cmp(_, _, _)
Cmp(keys, a, b) ==
  IF keys = <<>> THEN FALSE
  ELSE LET va == a[Head(keys)[2]]
           vb == b[Head(keys)[2]]
       IN IF va # vb
          THEN IF Head(keys)[1] = "DESC" THEN va > vb ELSE va < vb
          ELSE Cmp(Tail(keys), a, b)

\* The orders the elements of a sequence can stand in.
Arrangements(seq) ==
  {[i \in 1..Len(seq) |-> seq[f[i]]] :
     f \in {g \in [1..Len(seq) -> 1..Len(seq)] : \A i, j \in 1..Len(seq) : g[i] = g[j] => i = j}}

\* What std::sort(begin, end, cmp) may leave: the order of elements that cmp
\* puts neither before the other is not specified.
StdSort(seq, keys) ==
  {p \in Arrangements(seq) : \A i, j \in 1..Len(p) : i < j => ~Cmp(keys, p[j], p[i])}

\* The indexes of the elements q.top() may be: cmp puts them before no other.
Tops(pq, keys) == {i \in 1..Len(pq) : \A j \in 1..Len(pq) : ~Cmp(keys, pq[i], pq[j])}

\* The sequences that top() and pop() until empty may give.
PopOrders(pq, keys) ==
  {p \in Arrangements(pq) : \A i, j \in 1..Len(p) : i < j => ~Cmp(keys, p[i], p[j])}

\* A sequence without its element at index i.
Without(seq, i) == SubSeq(seq, 1, i - 1) \o SubSeq(seq, i + 1, Len(seq))

\* std::reverse left undone.
ReverseNot(seq) == seq

\* std::reverse(begin, end)
Reverse(seq) == [i \in 1..Len(seq) |-> seq[Len(seq) + 1 - i]]

\* The plan nodes and the child; no executor is initialised.
InitExec(children, lists, limits) ==
  /\ child_executor_ \in children
  /\ order_bys \in lists
  /\ topn_n \in limits
  /\ topn_pc = "idle"
  /\ cursor = 0
  /\ topn_q = <<>>
  /\ topn_tuples_ = <<>>
  /\ sort_pc = "idle"
  /\ sort_tuples_ = <<>>

\* TopNExecutor::Init up to its loop over the child.
TopNInit ==
  /\ topn_pc \in {"idle", "ready"}
  /\ topn_pc' = "loop"
  /\ cursor' = 0
  /\ topn_q' = <<>>
  /\ topn_tuples_' = <<>>
  /\ UNCHANGED <<child_executor_, order_bys, topn_n, sort_pc, sort_tuples_>>

\* child_executor_->Next gives a tuple; q.push(tuple).
TopNPush ==
  /\ topn_pc = "loop"
  /\ cursor < Len(child_executor_)
  /\ topn_q' = Append(topn_q, child_executor_[cursor + 1])
  /\ cursor' = cursor + 1
  /\ topn_pc' = "pushed"
  /\ UNCHANGED <<child_executor_, order_bys, topn_n, topn_tuples_, sort_pc, sort_tuples_>>

\* if (q.size() > plan_->GetN()) q.pop();
TopNTrim ==
  /\ topn_pc = "pushed"
  /\ IF Len(topn_q) > topn_n
     THEN \E i \in Tops(topn_q, order_bys) : topn_q' = Without(topn_q, i)
     ELSE UNCHANGED topn_q
  /\ topn_pc' = "loop"
  /\ UNCHANGED <<child_executor_, order_bys, topn_n, cursor, topn_tuples_, sort_pc, sort_tuples_>>

\* The child is at its end: the queue is emptied into tuples_, tuples_ is
\* reversed and iter_ set to its begin.
TopNDrain ==
  /\ topn_pc = "loop"
  /\ cursor = Len(child_executor_)
  /\ \E p \in PopOrders(topn_q, order_bys) : topn_tuples_' = Reverse(p)
  /\ topn_q' = <<>>
  /\ topn_pc' = "ready"
  /\ UNCHANGED <<child_executor_, order_bys, topn_n, cursor, sort_pc, sort_tuples_>>

\* SortExecutor::Init: all tuples of the child, sorted.
SortInit ==
  /\ sort_pc \in {"idle", "ready"}
  /\ \E p \in StdSort(child_executor_, order_bys) : sort_tuples_' = p
  /\ sort_pc' = "ready"
  /\ UNCHANGED <<child_executor_, order_bys, topn_n, topn_pc, cursor, topn_q, topn_tuples_>>

\* No upgrade was cancelled and no iterator exists.
InitAux ==
  /\ cancelled = {} /\ it_live = FALSE /\ it_leaf = NULL /\ it_pos = 0
  /\ InitQuery

\* The detector and the executors at rest.
InitOthers == InitDetect({{}}) /\ InitExec({<<>>}, {<<>>}, {0}) /\ InitAux

Init == InitLocks /\ InitPool /\ InitHash /\ InitTree({2}, {3}) /\ InitOthers

\* The callers: a transaction that is COMMITTED or ABORTED asks for no more
\* locks (its executor has stopped); it only releases what it holds.
Live(T) == {t \in T : state[t] \in {"GROWING", "SHRINKING"}}

\* The history of a wake-up: an upgrade that Wake(t) cancels is noted.
Noted(t) ==
  cancelled' = IF state[t] = "ABORTED" /\ wait[t].upgrade
               THEN cancelled \cup {<<t, wait[t].kind, wait[t].key>>}
               ELSE cancelled

\* Table and row locking with the deadlock detector, NumRowTxns transactions.
Next ==
  \/ \E t \in Live(RowTxns), m \in LockModes, o \in Tables : LockTable(t, m, o) /\ UNCHANGED <<pool_vars, rest_vars>>
  \/ \E t \in RowTxns, o \in Tables : UnlockTable(t, o) /\ UNCHANGED <<pool_vars, rest_vars>>
  \/ \E t \in Live(RowTxns), m \in LockModes, rid \in Rids : LockRow(t, m, TableOf(rid), rid) /\ UNCHANGED <<pool_vars, rest_vars>>
  \/ \E t \in RowTxns, rid \in Rids : UnlockRow(t, TableOf(rid), rid) /\ UNCHANGED <<pool_vars, rest_vars>>
  \/ \E t \in RowTxns : Wake(t) /\ Noted(t) /\ UNCHANGED <<pool_vars, other_vars>>
  \/ \E t \in RowTxns : Commit(t) /\ UNCHANGED <<pool_vars, rest_vars>>
  \/ RunCycleDetection /\ UNCHANGED <<pool_vars, rest_vars>>

Spec == Init /\ [][Next]_vars

\* Every transaction runs under REPEATABLE_READ: the order of the queue and
\* the grants do not read the isolation level.
InitRepeatableRead == Init /\ iso = [t \in Txns |-> "REPEATABLE_READ"]

\* The rows of a deadlock: two transactions under REPEATABLE_READ take an
\* intention lock on the table and lock, unlock and wait for its rows.
DeadlockRids == 1..NumDeadlockRows

NextDeadlock ==
  \/ \E t \in Live(RowTxns), m \in {"IS", "IX"}, o \in Tables : LockTable(t, m, o) /\ UNCHANGED <<pool_vars, rest_vars>>
  \/ \E t \in RowTxns, o \in Tables : UnlockTable(t, o) /\ UNCHANGED <<pool_vars, rest_vars>>
  \/ \E t \in Live(RowTxns), m \in RowModes, rid \in DeadlockRids : LockRow(t, m, TableOf(rid), rid) /\ UNCHANGED <<pool_vars, rest_vars>>
  \/ \E t \in RowTxns, rid \in DeadlockRids : UnlockRow(t, TableOf(rid), rid) /\ UNCHANGED <<pool_vars, rest_vars>>
  \/ \E t \in RowTxns : Wake(t) /\ Noted(t) /\ UNCHANGED <<pool_vars, other_vars>>
  \/ \E t \in RowTxns : Commit(t) /\ UNCHANGED <<pool_vars, rest_vars>>
  \/ RunCycleDetection /\ UNCHANGED <<pool_vars, rest_vars>>

SpecDeadlock == InitRepeatableRead /\ [][NextDeadlock]_vars

\* Table locking alone, NumTxns transactions under REPEATABLE_READ.
NextTable ==
  \/ \E t \in Live(Txns), m \in LockModes, o \in Tables : LockTable(t, m, o) /\ UNCHANGED <<pool_vars, rest_vars>>
  \/ \E t \in Txns, o \in Tables : UnlockTable(t, o) /\ UNCHANGED <<pool_vars, rest_vars>>
  \/ \E t \in Txns : Wake(t) /\ Noted(t) /\ UNCHANGED <<pool_vars, other_vars>>
  \/ \E t \in Txns : Commit(t) /\ UNCHANGED <<pool_vars, rest_vars>>

SpecTable == InitRepeatableRead /\ [][NextTable]_vars

\* A thread that notify_all() has reached is scheduled in the end: weak
\* fairness of the wake-up of each notified waiter (a spurious wake-up is
\* allowed and never owed).
SpecTableFair ==
  InitRepeatableRead /\ [][NextTable]_vars /\ \A t \in Txns : WF_vars(t \in notified /\ Wake(t) /\ Noted(t) /\ UNCHANGED <<pool_vars, other_vars>>)


\* ---------------------------------------------- buffer pool specifications

\* The buffer pool alone: no transaction takes a lock.
InitPoolAlone == Init /\ iso = [t \in Txns |-> "REPEATABLE_READ"]

\* The calls of the buffer pool, under its latch one step each.
NextPool ==
  \/ NewPgImp /\ UNCHANGED <<lock_vars, rest_vars>>
  \/ \E p \in PageIds : FetchPgImp(p) /\ UNCHANGED <<lock_vars, rest_vars>>
  \/ \E p \in PageIds, is_dirty \in BOOLEAN, data \in Data :
       /\ is_dirty \/ data = 0
       /\ UnpinPgImp(p, is_dirty, data)
       /\ UNCHANGED <<lock_vars, rest_vars>>
  \/ \E p \in PageIds : FlushPgImp(p) /\ UNCHANGED <<lock_vars, rest_vars>>
  \/ FlushAllPgsImp /\ UNCHANGED <<lock_vars, rest_vars>>
  \/ \E p \in PageIds : DeletePgImp(p) /\ UNCHANGED <<lock_vars, rest_vars>>

SpecPool == InitPoolAlone /\ [][NextPool]_vars

\* The replacer alone, with ReplacerFrames frames.
InitReplacer ==
  /\ InitLocks
  /\ iso = [t \in Txns |-> "REPEATABLE_READ"]
  /\ pages_ = [f \in Frames |-> EmptyPage]
  /\ free_list_ = [i \in 1..PoolSize |-> i - 1]
  /\ page_table_ = <<>>
  /\ replacer_ = LRUKReplacer(ReplacerFrames, ReplacerK)
  /\ next_page_id_ = 0
  /\ disk = [p \in PageIds |-> 0]
  /\ written = [p \in PageIds |-> 0]
  /\ result = NoResult
  /\ InitHash
  /\ InitTree({2}, {3})
  /\ InitOthers

NextReplacer ==
  \/ \E f \in 0..(ReplacerFrames - 1) : ReplacerRecordAccess(f) /\ UNCHANGED <<lock_vars, rest_vars>>
  \/ \E f \in 0..(ReplacerFrames - 1), b \in BOOLEAN :
       ReplacerSetEvictable(f, b) /\ UNCHANGED <<lock_vars, rest_vars>>
  \/ ReplacerEvict /\ UNCHANGED <<lock_vars, rest_vars>>
  \/ \E f \in 0..ReplacerFrames : ReplacerRemove(f) /\ UNCHANGED <<lock_vars, rest_vars>>

SpecReplacer == InitReplacer /\ [][NextReplacer]_vars

\* The hash table alone.
InitHashAlone == Init /\ iso = [t \in Txns |-> "REPEATABLE_READ"]

\* The calls of the hash table, under its latch one step each.
NextHash ==
  \/ \E key \in Keys, value \in Values : ExtendibleInsert(key, value) /\ UNCHANGED <<lock_vars, pool_vars, tree_vars, detect_vars, exec_vars, aux_vars>>
  \/ \E key \in Keys : ExtendibleRemove(key) /\ UNCHANGED <<lock_vars, pool_vars, tree_vars, detect_vars, exec_vars, aux_vars>>
  \/ \E key \in Keys : ExtendibleFind(key) /\ UNCHANGED <<lock_vars, pool_vars, tree_vars, detect_vars, exec_vars, aux_vars>>

SpecHash == InitHashAlone /\ [][NextHash]_vars

\* The B+ tree with one caller at a time.  Insert alone runs for every
\* leaf_max_size and internal_max_size up to the bounds; a key the tree does
\* not hold comes with value 1, a key it holds with any value.
InitTreeAlone ==
  /\ InitLocks /\ InitPool /\ InitHash
  /\ iso = [t \in Txns |-> "REPEATABLE_READ"]
  /\ InitTree(2..LeafMaxSize, 3..InternalMaxSize)
  /\ InitOthers

NextTreeInsert ==
  \E key \in TreeKeys, value \in TreeValues :
    /\ stored[key] # ABSENT \/ value = 1
    /\ BPlusTreeCall("Insert", key, value)
    /\ UNCHANGED <<lock_vars, pool_vars, hash_vars, detect_vars, exec_vars, aux_vars>>

SpecTreeInsert == InitTreeAlone /\ [][NextTreeInsert]_vars

\* Insert, Remove and GetValue on the tree with the smallest pages the
\* constructor takes, which is three levels high with few keys.  The keys
\* come in descending order: a key the tree does not hold is below the keys
\* it holds.
InitTreeSmall ==
  /\ InitLocks /\ InitPool /\ InitHash
  /\ iso = [t \in Txns |-> "REPEATABLE_READ"]
  /\ InitTree({2}, {3})
  /\ InitOthers

Lowest(key) == \A k \in TreeKeys : stored[k] # ABSENT => key < k

NextTree ==
  \/ \E key \in TreeKeys, value \in TreeValues :
       /\ stored[key] # ABSENT \/ (value = 1 /\ Lowest(key))
       /\ BPlusTreeCall("Insert", key, value)
       /\ UNCHANGED <<lock_vars, pool_vars, hash_vars, detect_vars, exec_vars, aux_vars>>
  \/ \E key \in TreeKeys :
       BPlusTreeCall("Remove", key, 0) /\ UNCHANGED <<lock_vars, pool_vars, hash_vars, detect_vars, exec_vars, aux_vars>>
  \/ \E key \in TreeKeys :
       BPlusTreeCall("GetValue", key, 0) /\ UNCHANGED <<lock_vars, pool_vars, hash_vars, detect_vars, exec_vars, aux_vars>>

SpecTree == InitTreeSmall /\ [][NextTree]_vars

\* Insert and Remove by NumThreads threads, each on its own keys, the keys
\* again in descending order.
NextThreads ==
  \/ \E t \in Threads : \E key \in KeysOf(t) :
       /\ stored[key] = ABSENT /\ Lowest(key)
       /\ ThreadCall(t, "Insert", key, 1)
       /\ UNCHANGED <<lock_vars, pool_vars, hash_vars, detect_vars, exec_vars, aux_vars>>
  \/ \E t \in Threads : \E key \in KeysOf(t) :
       /\ stored[key] # ABSENT
       /\ ThreadCall(t, "Remove", key, 0)
       /\ UNCHANGED <<lock_vars, pool_vars, hash_vars, detect_vars, exec_vars, aux_vars>>
  \/ \E t \in Threads : ThreadStep(t) /\ UNCHANGED <<lock_vars, pool_vars, hash_vars, detect_vars, exec_vars, aux_vars>>

SpecThreads == InitTreeSmall /\ [][NextThreads]_vars

\* One caller that is seen at every latch it takes: thread 1 calls Insert,
\* Remove and GetValue with the keys up to NumStepKeys and goes from latch to
\* latch.
NextSteps ==
  \/ \E key \in 1..NumStepKeys, value \in TreeValues :
       /\ stored[key] # ABSENT \/ (value = 1 /\ Lowest(key))
       /\ ThreadCall(1, "Insert", key, value)
       /\ UNCHANGED <<lock_vars, pool_vars, hash_vars, detect_vars, exec_vars, aux_vars>>
  \/ \E key \in 1..NumStepKeys :
       ThreadCall(1, "Remove", key, 0) /\ UNCHANGED <<lock_vars, pool_vars, hash_vars, detect_vars, exec_vars, aux_vars>>
  \/ \E key \in 1..NumStepKeys :
       ThreadCall(1, "GetValue", key, 0) /\ UNCHANGED <<lock_vars, pool_vars, hash_vars, detect_vars, exec_vars, aux_vars>>
  \/ ThreadStep(1) /\ UNCHANGED <<lock_vars, pool_vars, hash_vars, detect_vars, exec_vars, aux_vars>>

SpecSteps == InitTreeSmall /\ [][NextSteps]_vars

\* An iterator beside a caller: thread 1 inserts the keys up to MaxIterKey
\* in descending order, while fewer than MaxIterPages pages were handed out,
\* removes them and looks them up, a latch at a time, while an iterator is
\* created, advanced and destroyed.
NextIter ==
  \/ \E key \in 1..MaxIterKey :
       /\ stored[key] = ABSENT /\ Lowest(key)
       /\ allocated < MaxIterPages
       /\ ThreadCall(1, "Insert", key, 1)
       /\ UNCHANGED <<lock_vars, pool_vars, hash_vars, detect_vars, exec_vars, aux_vars>>
  \/ \E key \in 1..MaxIterKey :
       /\ stored[key] # ABSENT
       /\ ThreadCall(1, "Remove", key, 0)
       /\ UNCHANGED <<lock_vars, pool_vars, hash_vars, detect_vars, exec_vars, aux_vars>>
  \/ \E key \in 1..MaxIterKey :
       /\ ThreadCall(1, "GetValue", key, 0)
       /\ UNCHANGED <<lock_vars, pool_vars, hash_vars, detect_vars, exec_vars, aux_vars>>
  \/ ThreadStep(1) /\ UNCHANGED <<lock_vars, pool_vars, hash_vars, detect_vars, exec_vars, aux_vars>>
  \/ IteratorBegin /\ UNCHANGED <<lock_vars, pool_vars, hash_vars, detect_vars, exec_vars, cancelled, query_vars>>
  \/ IteratorNext /\ UNCHANGED <<lock_vars, pool_vars, hash_vars, detect_vars, exec_vars, cancelled, query_vars>>
  \/ IteratorEnd /\ UNCHANGED <<lock_vars, pool_vars, hash_vars, detect_vars, exec_vars, cancelled, query_vars>>

SpecIter == InitTreeSmall /\ [][NextIter]_vars

\* A scan, an insert and a transaction beside them: the scan by ScanTxn and
\* the insert by InsertTxn run on the table that transaction 1 locks and
\* unlocks, rows included, while the deadlock detector runs.
NextQuery ==
  \/ SeqScanInit /\ UNCHANGED <<pool_vars, hash_vars, tree_vars, detect_vars, exec_vars, cancelled, iter_vars>>
  \/ SeqScanNext /\ UNCHANGED <<pool_vars, hash_vars, tree_vars, detect_vars, exec_vars, cancelled, iter_vars>>
  \/ SeqScanNextEnd /\ UNCHANGED <<pool_vars, hash_vars, tree_vars, detect_vars, exec_vars, cancelled, iter_vars>>
  \/ SeqScanUnlock /\ UNCHANGED <<pool_vars, hash_vars, tree_vars, detect_vars, exec_vars, cancelled, iter_vars>>
  \/ SeqScanWake /\ Noted(ScanTxn) /\ UNCHANGED <<pool_vars, hash_vars, tree_vars, detect_vars, exec_vars, iter_vars>>
  \/ InsertInit /\ UNCHANGED <<pool_vars, hash_vars, tree_vars, detect_vars, exec_vars, cancelled, iter_vars>>
  \/ InsertNext /\ UNCHANGED <<pool_vars, hash_vars, tree_vars, detect_vars, exec_vars, cancelled, iter_vars>>
  \/ \E m \in LockModes : LockTable(1, m, TableOid) /\ state[1] \in {"GROWING", "SHRINKING"} /\ UNCHANGED <<pool_vars, rest_vars>>
  \/ UnlockTable(1, TableOid) /\ UNCHANGED <<pool_vars, rest_vars>>
  \/ \E rid \in ScanRids : LockRow(1, "X", TableOid, rid) /\ state[1] \in {"GROWING", "SHRINKING"} /\ UNCHANGED <<pool_vars, rest_vars>>
  \/ \E rid \in ScanRids : UnlockRow(1, TableOid, rid) /\ UNCHANGED <<pool_vars, rest_vars>>
  \/ Wake(1) /\ Noted(1) /\ UNCHANGED <<pool_vars, other_vars>>
  \/ RunCycleDetection /\ UNCHANGED <<pool_vars, rest_vars>>

SpecQuery == Init /\ [][NextQuery]_vars

\* HasCycle alone, on every waits-for graph over DetectTxns.
InitDetectAlone ==
  /\ InitLocks /\ InitPool /\ InitHash /\ InitTree({2}, {3})
  /\ iso = [t \in Txns |-> "REPEATABLE_READ"]
  /\ InitDetect(Graphs)
  /\ InitExec({<<>>}, {<<>>}, {0})
  /\ InitAux

NextDetect ==
  \/ HasCycleRound /\ UNCHANGED <<lock_vars, pool_vars, hash_vars, tree_vars, exec_vars, aux_vars>>
  \/ HasCycleEnds /\ UNCHANGED <<lock_vars, pool_vars, hash_vars, tree_vars, exec_vars, aux_vars>>

SpecDetect == InitDetectAlone /\ [][NextDetect]_vars

\* The Sort and the TopN executor over every child, order-by list and limit
\* up to the bounds.
InitExecAlone ==
  /\ InitLocks /\ InitPool /\ InitHash /\ InitTree({2}, {3})
  /\ iso = [t \in Txns |-> "REPEATABLE_READ"]
  /\ InitDetect({{}})
  /\ InitExec(ChildOutputs, OrderByLists, 0..MaxN)
  /\ InitAux

NextExec ==
  \/ TopNInit /\ UNCHANGED <<lock_vars, pool_vars, hash_vars, tree_vars, detect_vars, aux_vars>>
  \/ TopNPush /\ UNCHANGED <<lock_vars, pool_vars, hash_vars, tree_vars, detect_vars, aux_vars>>
  \/ TopNTrim /\ UNCHANGED <<lock_vars, pool_vars, hash_vars, tree_vars, detect_vars, aux_vars>>
  \/ TopNDrain /\ UNCHANGED <<lock_vars, pool_vars, hash_vars, tree_vars, detect_vars, aux_vars>>
  \/ SortInit /\ UNCHANGED <<lock_vars, pool_vars, hash_vars, tree_vars, detect_vars, aux_vars>>

SpecExec == InitExecAlone /\ [][NextExec]_vars

\* ===================================================================== claims
Kinds == {"table", "row"}

\* The request queues that exist, as <<kind, key>>.
Queues == {<<"table", o>> : o \in DOMAIN table_lock_map_}
            \cup {<<"row", r>> : r \in DOMAIN row_lock_map_}

Rq(kq) == LockMap(kq[1])[kq[2]].rq

\* The request queue of a table, empty when the table has none.
TableRq(o) == IF o \in DOMAIN table_lock_map_ THEN table_lock_map_[o].rq ELSE <<>>

\* The compatibility matrix of the specification, as unordered pairs.
MatrixCompatible(a, b) ==
  {a, b} \in {{"IS"}, {"IS", "IX"}, {"IS", "S"}, {"IS", "SIX"}, {"IX"}, {"S"}}

\* Transaction t holds a granted request of mode m in the queue.
Holds(rq, t, m) == \E i \in 1..Len(rq) : rq[i].txn = t /\ rq[i].mode = m /\ rq[i].granted

\* Transaction t has an ungranted request of mode m in the queue.
Pending(rq, t, m) == \E i \in 1..Len(rq) : rq[i].txn = t /\ rq[i].mode = m /\ ~rq[i].granted

\* C1: in every queue, two granted requests of different transactions have
\* modes the compatibility matrix marks compatible.
C1_GrantedCompatible ==
  \A kq \in Queues : \A i, j \in 1..Len(Rq(kq)) :
    (i # j /\ Rq(kq)[i].granted /\ Rq(kq)[j].granted /\ Rq(kq)[i].txn # Rq(kq)[j].txn)
      => MatrixCompatible(Rq(kq)[i].mode, Rq(kq)[j].mode)

\* C1's case: one transaction holds S on a table while another's X request
\* stands ungranted in the same queue.
C1_Witness ==
  \E o \in DOMAIN table_lock_map_ : \E t, u \in Txns :
    /\ t # u
    /\ Holds(TableRq(o), t, "S")
    /\ Pending(TableRq(o), u, "X")

\* C2: no granted request stands behind an ungranted one: a request is not
\* granted while a request ahead of it in the queue is ungranted.
C2_FifoGrant ==
  \A kq \in Queues : \A i, j \in 1..Len(Rq(kq)) :
    (i < j /\ Rq(kq)[j].granted) => Rq(kq)[i].granted

\* C2's case: a fresh request waits behind an ungranted request although every
\* granted request (there is one) is compatible with it.
C2_Witness ==
  \E o \in DOMAIN table_lock_map_ : \E i, j \in 1..Len(TableRq(o)) :
    LET rq == TableRq(o) IN
    /\ i < j /\ ~rq[i].granted /\ ~rq[j].granted
    /\ wait[rq[j].txn] = [kind |-> "table", key |-> o, upgrade |-> FALSE]
    /\ \E k \in 1..Len(rq) : rq[k].granted
    /\ \A k \in 1..Len(rq) : rq[k].granted => MatrixCompatible(rq[k].mode, rq[j].mode)


\* The mode of the lock a successful unlock by t releases from the queue.
HeldMode(rq, t) == rq[GrantedIndexOf(rq, t)].mode

\* This step is a successful UnlockTable(t, o) / UnlockRow(t, rid).
UnlockedTable(t, o) == UnlockTable(t, o) /\ outcome' = NoOutcome
UnlockedRow(t, rid) == UnlockRow(t, TableOf(rid), rid) /\ outcome' = NoOutcome

\* This step is a successful unlock by t of a lock whose mode is in M.
UnlockedMode(t, M) ==
  \/ \E o \in Tables : UnlockedTable(t, o) /\ HeldMode(TableRq(o), t) \in M
  \/ \E rid \in Rids : UnlockedRow(t, rid) /\ HeldMode(row_lock_map_[rid].rq, t) \in M

\* This step is a call LockTable(t, m, o) for some mode and table.
CallsLockTable(t) == \E m \in LockModes, o \in Tables : LockTable(t, m, o)

\* C5 as stated, for a transaction that is GROWING or SHRINKING: under
\* REPEATABLE_READ a successful unlock of a lock of any mode leaves it SHRINKING.
C5_AnyModeShrinks ==
  [][\A t \in Txns :
       (iso[t] = "REPEATABLE_READ" /\ state[t] \in {"GROWING", "SHRINKING"}
          /\ UnlockedMode(t, LockModes))
         => state'[t] = "SHRINKING"]_vars

\* C5 amended: under REPEATABLE_READ a successful unlock of an S or X lock
\* (table or row) by a GROWING or SHRINKING transaction leaves it SHRINKING,
\* the release of an IS, IX or SIX lock leaves its state as it was, and every
\* LockTable call by a SHRINKING transaction sets it ABORTED with
\* LOCK_ON_SHRINKING.
C5_SharedOrExclusiveShrinks ==
  [][\A t \in Txns :
       iso[t] = "REPEATABLE_READ" =>
         /\ (state[t] \in {"GROWING", "SHRINKING"} /\ UnlockedMode(t, {"S", "X"}))
              => state'[t] = "SHRINKING"
         /\ UnlockedMode(t, {"IS", "IX", "SIX"}) => state'[t] = state[t]
         /\ (state[t] = "SHRINKING" /\ CallsLockTable(t))
              => /\ state'[t] = "ABORTED"
                 /\ outcome' = <<t, "LockTable", "LOCK_ON_SHRINKING">>]_vars

\* C5's case: a REPEATABLE_READ transaction was aborted by a LockTable call
\* after it had released a lock.
C5_Witness ==
  \E t \in Txns : /\ iso[t] = "REPEATABLE_READ"
                  /\ outcome = <<t, "LockTable", "LOCK_ON_SHRINKING">>

\* The rule of C6: the unlock of a lock of mode m demotes at this level.
Demotes(level, m) ==
  \/ (level = "REPEATABLE_READ" /\ m \in {"S", "X"})
  \/ (level \in {"READ_COMMITTED", "READ_UNCOMMITTED"} /\ m = "X")

StateByRule(level, st, m) == IF st = "GROWING" /\ Demotes(level, m) THEN "SHRINKING" ELSE st

\* C6: a successful UnlockTable or UnlockRow makes a GROWING transaction
\* SHRINKING exactly when the rule demotes for its level and the released
\* mode, and leaves the state of every other transaction as it was.
C6_UnlockStateRule ==
  [][\A t \in Txns :
       /\ \A o \in Tables : UnlockedTable(t, o) =>
            state' = [state EXCEPT ![t] = StateByRule(iso[t], state[t], HeldMode(TableRq(o), t))]
       /\ \A rid \in Rids : UnlockedRow(t, rid) =>
            state' = [state EXCEPT ![t] =
                        StateByRule(iso[t], state[t], HeldMode(row_lock_map_[rid].rq, t))]]_vars

\* C6's cases: a READ_COMMITTED transaction made SHRINKING (by the release of
\* an X lock) that holds nothing more.
C6_Witness ==
  \E t \in Txns : /\ iso[t] = "READ_COMMITTED"
                  /\ state[t] = "SHRINKING"
                  /\ \A m \in LockModes : tls[t][m] = {}
                  /\ \A m \in RowModes : rls[t][m] = {}


\* The rejection rule of C7: the reason LockTable aborts with, "ok" if none.
Rejected(level, st, m) ==
  IF level = "READ_UNCOMMITTED" /\ m \in {"S", "IS", "SIX"}
  THEN "LOCK_SHARED_ON_READ_UNCOMMITTED"
  ELSE IF st = "SHRINKING"
          /\ \/ level = "REPEATABLE_READ"
             \/ (level = "READ_COMMITTED" /\ m \notin {"IS", "S"})
             \/ (level = "READ_UNCOMMITTED" /\ m \in {"X", "IX"})
  THEN "LOCK_ON_SHRINKING"
  ELSE "ok"

\* C7: a LockTable call the rule rejects sets the transaction ABORTED with the
\* rule's reason and leaves the lock maps and lock sets as they were; a call
\* the rule lets pass never aborts with one of the two reasons.
C7_LockTableRejects ==
  [][\A t \in Txns, m \in LockModes, o \in Tables :
       LockTable(t, m, o) =>
         IF Rejected(iso[t], state[t], m) # "ok"
         THEN /\ state'[t] = "ABORTED"
              /\ outcome' = <<t, "LockTable", Rejected(iso[t], state[t], m)>>
              /\ UNCHANGED <<table_lock_map_, row_lock_map_, tls, rls, wait>>
         ELSE outcome'[3] \notin {"LOCK_SHARED_ON_READ_UNCOMMITTED", "LOCK_ON_SHRINKING"}]_vars

\* C7's cases: a SHRINKING READ_COMMITTED transaction was rejected (it asked
\* for a mode other than IS and S) and no request of it stands in a queue.
C7_Witness ==
  \E t \in Txns : /\ iso[t] = "READ_COMMITTED"
                  /\ outcome = <<t, "LockTable", "LOCK_ON_SHRINKING">>
                  /\ state[t] = "ABORTED"
                  /\ \A o \in DOMAIN table_lock_map_ : IndexOf(TableRq(o), t) = 0

\* The upgrades C8 lists.
ListedUpgrade(old, new) ==
  \/ (old = "IS" /\ new \in {"S", "X", "IX", "SIX"})
  \/ (old = "S" /\ new \in {"X", "SIX"})
  \/ (old = "IX" /\ new \in {"X", "SIX"})
  \/ (old = "SIX" /\ new = "X")

\* t holds a lock on table o in a mode other than m and calls LockTable(t, m, o),
\* which the isolation-level checks let pass.
RequestsOtherMode(t, m, o) ==
  /\ o \in DOMAIN table_lock_map_
  /\ GrantedIndexOf(TableRq(o), t) # 0
  /\ HeldMode(TableRq(o), t) # m
  /\ LockTableCheck(iso[t], state[t], m) = "ok"
  /\ LockTable(t, m, o)

\* The request proceeds as an upgrade: the held request is replaced by one of
\* mode m, granted at once or pending with upgrading_ naming t.
ProceedsAsUpgrade(t, m, o) ==
  /\ outcome' = NoOutcome
  /\ state'[t] = state[t]
  /\ LET rq == table_lock_map_'[o].rq
         i  == IndexOf(rq, t)
     IN /\ i # 0
        /\ rq[i].mode = m
        /\ Len(rq) = Len(TableRq(o))
        /\ \/ rq[i].granted /\ o \in tls'[t][m]
           \/ ~rq[i].granted /\ table_lock_map_'[o].upgrading = t
                             /\ wait'[t] = [kind |-> "table", key |-> o, upgrade |-> TRUE]

RefusedWith(t, why) ==
  /\ state'[t] = "ABORTED"
  /\ outcome' = <<t, "LockTable", why>>
  /\ UNCHANGED <<table_lock_map_, tls, rls>>

\* C8 as stated: a listed pair proceeds as an upgrade unless another upgrade
\* is pending, and every other pair is refused with INCOMPATIBLE_UPGRADE.
C8_OtherPairsIncompatible ==
  [][\A t \in Txns, m \in LockModes, o \in Tables :
       RequestsOtherMode(t, m, o) =>
         IF ListedUpgrade(HeldMode(TableRq(o), t), m)
         THEN table_lock_map_[o].upgrading = INVALID_TXN_ID => ProceedsAsUpgrade(t, m, o)
         ELSE RefusedWith(t, "INCOMPATIBLE_UPGRADE")]_vars

\* C8 amended: while another transaction's upgrade is pending on the queue
\* every request for a different mode, listed pair or not, is refused with
\* UPGRADE_CONFLICT; with none pending a listed pair proceeds as an upgrade
\* and every other pair is refused with INCOMPATIBLE_UPGRADE; a refusal leaves
\* the existing granted request in the queue.
C8_UpgradePairs ==
  [][\A t \in Txns, m \in LockModes, o \in Tables :
       RequestsOtherMode(t, m, o) =>
         IF table_lock_map_[o].upgrading # INVALID_TXN_ID
         THEN RefusedWith(t, "UPGRADE_CONFLICT")
         ELSE IF ListedUpgrade(HeldMode(TableRq(o), t), m)
         THEN ProceedsAsUpgrade(t, m, o)
         ELSE RefusedWith(t, "INCOMPATIBLE_UPGRADE")]_vars

\* C8's cases: a transaction was refused with INCOMPATIBLE_UPGRADE and its
\* granted request still stands in the queue.
C8_Witness ==
  \E t \in Txns, o \in DOMAIN table_lock_map_ :
    /\ outcome = <<t, "LockTable", "INCOMPATIBLE_UPGRADE">>
    /\ state[t] = "ABORTED"
    /\ GrantedIndexOf(TableRq(o), t) # 0


\* The transactions whose upgrade is pending in the queue: blocked in the
\* wait loop of the upgrade path.
PendingUpgrades(kq) ==
  {t \in Txns : wait[t] = [kind |-> kq[1], key |-> kq[2], upgrade |-> TRUE]}

\* At most one upgrade is pending per queue, its request stands ungranted in
\* the queue and upgrading_ names its transaction; with none pending
\* upgrading_ is INVALID_TXN_ID.
OneUpgradePerQueue ==
  \A kq \in Queues :
    LET P == PendingUpgrades(kq)
        q == LockMap(kq[1])[kq[2]]
    IN /\ Cardinality(P) <= 1
       /\ \A t \in P : /\ q.upgrading = t
                       /\ \E i \in 1..Len(q.rq) : q.rq[i].txn = t /\ ~q.rq[i].granted
       /\ P = {} => q.upgrading = INVALID_TXN_ID

\* The transactions that hold a granted request in a queue in which an
\* upgrade is pending.
HoldersBesidePending(kq) ==
  IF PendingUpgrades(kq) = {} THEN {}
  ELSE {t \in Txns : GrantedIndexOf(Rq(kq), t) # 0}

\* C9: every queue has at most one pending upgrade and its upgrading field
\* names that transaction exactly while the upgrade is pending; a LockTable or
\* LockRow call that passes the checks of its level and asks for another mode
\* than the caller holds, in a queue with a pending upgrade, sets the caller
\* ABORTED with UPGRADE_CONFLICT and leaves the queues as they were.
C9_SingleUpgrade ==
  /\ []OneUpgradePerQueue
  /\ [][/\ \A o \in DOMAIN table_lock_map_ :
             \A t \in HoldersBesidePending(<<"table", o>>) :
               \A m \in LockModes \ {HeldMode(TableRq(o), t)} :
                 (LockTableCheck(iso[t], state[t], m) = "ok" /\ LockTable(t, m, o))
                   => /\ state'[t] = "ABORTED"
                      /\ outcome' = <<t, "LockTable", "UPGRADE_CONFLICT">>
                      /\ UNCHANGED <<table_lock_map_, row_lock_map_>>
        /\ \A rid \in DOMAIN row_lock_map_ :
             \A t \in HoldersBesidePending(<<"row", rid>>) :
               \A m \in LockModes \ {HeldMode(row_lock_map_[rid].rq, t)} :
                 (LockRowCheck(t, m, TableOf(rid)) = "ok" /\ LockRow(t, m, TableOf(rid), rid))
                   => /\ state'[t] = "ABORTED"
                      /\ outcome' = <<t, "LockRow", "UPGRADE_CONFLICT">>
                      /\ UNCHANGED <<table_lock_map_, row_lock_map_>>]_vars

\* C9's case: a transaction was refused with UPGRADE_CONFLICT on a row whose
\* queue has the upgrade of another transaction pending.
C9_Witness ==
  \E t \in Txns, rid \in DOMAIN row_lock_map_ :
    /\ outcome = <<t, "LockRow", "UPGRADE_CONFLICT">>
    /\ PendingUpgrades(<<"row", rid>>) # {}
    /\ t \notin PendingUpgrades(<<"row", rid>>)
    /\ GrantedIndexOf(row_lock_map_[rid].rq, t) # 0

RefusedUnlock(t, why) ==
  /\ state'[t] = "ABORTED"
  /\ outcome' = <<t, "UnlockTable", why>>
  /\ UNCHANGED <<table_lock_map_, row_lock_map_, tls, rls>>

\* C10 as stated: no granted request on the table gives
\* ATTEMPTED_UNLOCK_BUT_NO_LOCK_HELD, and a held S or X row lock of the table
\* gives TABLE_UNLOCKED_BEFORE_UNLOCKING_ROWS.
C10_EitherReason ==
  [][\A t \in Txns, o \in Tables :
       UnlockTable(t, o) =>
         /\ GrantedIndexOf(TableRq(o), t) = 0
              => RefusedUnlock(t, "ATTEMPTED_UNLOCK_BUT_NO_LOCK_HELD")
         /\ (\E p \in rls[t]["S"] \cup rls[t]["X"] : p[1] = o)
              => RefusedUnlock(t, "TABLE_UNLOCKED_BEFORE_UNLOCKING_ROWS")]_vars

\* C10 amended: UnlockTable on a table that has no queue aborts with
\* ATTEMPTED_UNLOCK_BUT_NO_LOCK_HELD whatever row locks are held; on a table
\* with a queue a held S or X row lock of the table aborts with
\* TABLE_UNLOCKED_BEFORE_UNLOCKING_ROWS whether or not a table lock is held;
\* with no such row lock and no granted request it aborts with
\* ATTEMPTED_UNLOCK_BUT_NO_LOCK_HELD.  The queues and lock sets are unchanged.
C10_UnlockTableRefusals ==
  [][\A t \in Txns, o \in Tables :
       UnlockTable(t, o) =>
         IF o \notin DOMAIN table_lock_map_
         THEN RefusedUnlock(t, "ATTEMPTED_UNLOCK_BUT_NO_LOCK_HELD")
         ELSE IF \E p \in rls[t]["S"] \cup rls[t]["X"] : p[1] = o
         THEN RefusedUnlock(t, "TABLE_UNLOCKED_BEFORE_UNLOCKING_ROWS")
         ELSE IF GrantedIndexOf(TableRq(o), t) = 0
         THEN RefusedUnlock(t, "ATTEMPTED_UNLOCK_BUT_NO_LOCK_HELD")
         ELSE outcome' = NoOutcome]_vars

\* C10's cases: a transaction that holds a table lock and a row lock of the
\* table was refused with TABLE_UNLOCKED_BEFORE_UNLOCKING_ROWS and still holds
\* both.
C10_Witness ==
  \E t \in Txns, o \in DOMAIN table_lock_map_ :
    /\ outcome = <<t, "UnlockTable", "TABLE_UNLOCKED_BEFORE_UNLOCKING_ROWS">>
    /\ state[t] = "ABORTED"
    /\ GrantedIndexOf(TableRq(o), t) # 0
    /\ \E p \in rls[t]["S"] \cup rls[t]["X"] : p[1] = o


\* t holds a granted request of some mode on table o.
HoldsAny(t, o) == GrantedIndexOf(TableRq(o), t) # 0

\* Every transaction that holds a lock on a table unlocks it in the end.
HoldersUnlock == \A t \in Txns, o \in Tables : []<>(~HoldsAny(t, o))

\* A waiting X request on a table is granted in the end.
ExclusiveGranted ==
  \A x \in Txns, o \in Tables :
    Pending(TableRq(o), x, "X") ~> Holds(TableRq(o), x, "X")

\* In this step a request of t for IS or S, made while the X request of x is
\* pending, is granted at once, the X request still pending after it.
SharedArrivesGranted(x, t, o) ==
  /\ Pending(TableRq(o), x, "X")
  /\ Pending(table_lock_map_'[o].rq, x, "X")
  /\ \E m \in {"IS", "S"} :
       /\ LockTable(t, m, o)
       /\ ~Holds(TableRq(o), t, m)
       /\ Holds(table_lock_map_'[o].rq, t, m)

\* In this step a waiting request of t for IS or S that stands behind the
\* pending X request of x in the queue is granted, the X request still pending.
SharedBehindGranted(x, t, o) ==
  /\ Pending(TableRq(o), x, "X")
  /\ Pending(table_lock_map_'[o].rq, x, "X")
  /\ IndexOf(TableRq(o), t) > IndexOf(TableRq(o), x)
  /\ \E m \in {"IS", "S"} :
       /\ Pending(TableRq(o), t, m)
       /\ Holds(table_lock_map_'[o].rq, t, m)

\* C3 as stated, its second part: no IS or S request that arrives while an X
\* request is pending is granted before the X request.
C3_NoSharedOvertakes ==
  [][\A x \in Txns, o \in DOMAIN table_lock_map_ : \A t \in Txns \ {x} :
       ~SharedArrivesGranted(x, t, o) /\ ~SharedBehindGranted(x, t, o)]_vars

\* C3 amended: if every holder of a table lock unlocks in the end, a waiting X
\* request on the table is granted in the end, and no IS or S request of a
\* transaction that had no request in the queue when it arrived behind the
\* pending X request is granted before it; a holder's upgrade to S that
\* arrives after the X request is placed ahead of it and may be granted first.
C3_ExclusiveNotStarved ==
  /\ HoldersUnlock => ExclusiveGranted
  /\ [][\A x \in Txns, o \in DOMAIN table_lock_map_ : \A t \in Txns \ {x} :
          /\ SharedArrivesGranted(x, t, o) => IndexOf(TableRq(o), t) # 0
          /\ ~SharedBehindGranted(x, t, o)]_vars

\* C3's case: a transaction that released its lock is SHRINKING and holds
\* nothing, the X request that waited for it is granted, and an S or IS request
\* that arrived behind the X request still waits.
C3_Witness ==
  \E x \in Txns, o \in DOMAIN table_lock_map_ :
    /\ Holds(TableRq(o), x, "X")
    /\ \E t \in Txns \ {x} : Pending(TableRq(o), t, "S") \/ Pending(TableRq(o), t, "IS")
    /\ \E h \in Txns \ {x} : /\ state[h] = "SHRINKING"
                             /\ IndexOf(TableRq(o), h) = 0

\* Two transactions each hold S on a row and wait for X on the row of the other.
Deadlocked(a, b) ==
  \E ra, rb \in DOMAIN row_lock_map_ :
    /\ ra # rb
    /\ Holds(row_lock_map_[ra].rq, a, "S") /\ Pending(row_lock_map_[ra].rq, b, "X")
    /\ Holds(row_lock_map_[rb].rq, b, "S") /\ Pending(row_lock_map_[rb].rq, a, "X")

\* The waiting request of t would be granted by GrantLock now.
Grantable(t) ==
  /\ wait[t] # NoWait
  /\ LET rq == LockMap(wait[t].kind)[wait[t].key].rq IN GrantLock(rq, IndexOf(rq, t))

\* No wake-up is lost: a waiter whose request can be granted, or whose
\* transaction is ABORTED, has been notified.
NoLostWakeup ==
  \A t \in Txns : (Grantable(t) \/ (wait[t] # NoWait /\ state[t] = "ABORTED"))
                    => t \in notified

\* C4: from the deadlock of two transactions on two rows a run of the detector
\* sets the one with the larger id ABORTED and leaves the other; the wake-up
\* of an ABORTED waiter in LockRow returns false with its request out of the
\* queue; a waiter whose request can be granted has been notified, and its
\* wake-up grants the request: the X request of the other transaction once the
\* victim has released its row lock.
C4_DeadlockVictim ==
  /\ []NoLostWakeup
  /\ [][/\ \A a, b \in Txns :
             (a < b /\ Deadlocked(a, b) /\ RunCycleDetection)
               => /\ state'[b] = "ABORTED"
                  /\ state'[a] = state[a]
                  /\ state[a] # "ABORTED"
        /\ \A v \in Txns :
             (wait[v].kind = "row" /\ state[v] = "ABORTED" /\ Wake(v))
               => /\ outcome' = <<v, "LockRow", "false">>
                  /\ IndexOf(row_lock_map_'[wait[v].key].rq, v) = 0
                  /\ wait'[v] = NoWait
                  /\ UNCHANGED <<tls, rls>>
        /\ \A s \in Txns :
             (wait[s].kind = "row" /\ state[s] # "ABORTED" /\ Grantable(s) /\ Wake(s))
               => /\ \E m \in RowModes :
                       /\ Pending(row_lock_map_[wait[s].key].rq, s, m)
                       /\ Holds(row_lock_map_'[wait[s].key].rq, s, m)
                  /\ wait'[s] = NoWait
                  /\ outcome' = NoOutcome]_vars

\* C4's case: the victim of the deadlock has returned false from LockRow, its
\* request is out of the queue of the row the other transaction holds, and
\* the other transaction still waits for the row the victim holds.
C4_Witness ==
  \E a, b \in Txns, ra, rb \in DOMAIN row_lock_map_ :
    /\ a < b /\ ra # rb
    /\ outcome = <<b, "LockRow", "false">>
    /\ state[b] = "ABORTED" /\ state[a] # "ABORTED"
    /\ IndexOf(row_lock_map_[ra].rq, b) = 0
    /\ Holds(row_lock_map_[ra].rq, a, "S")
    /\ Holds(row_lock_map_[rb].rq, b, "S") /\ Pending(row_lock_map_[rb].rq, a, "X")


\* t holds a granted request of mode X, IX or SIX in the queue of table o.
HoldsWriteIntent(t, o) ==
  \E m \in {"X", "IX", "SIX"} : Holds(TableRq(o), t, m)

RefusedRow(t, why) ==
  /\ state'[t] = "ABORTED"
  /\ outcome' = <<t, "LockRow", why>>
  /\ UNCHANGED <<table_lock_map_, row_lock_map_, tls, rls, wait>>

\* C11: for the transactions that lock rows (a blocked one makes no call),
\* LockRow in mode IS, IX or SIX sets the transaction ABORTED with
\* ATTEMPTED_INTENTION_LOCK_ON_ROW; LockRow in mode X by a transaction with no
\* granted X, IX or SIX request on the table of the row sets it ABORTED with
\* TABLE_LOCK_NOT_PRESENT; neither adds a request to a queue, and no other
\* LockRow call ends with one of the two reasons.
C11_LockRowRejects ==
  [][\A t \in {u \in RowTxns : wait[u] = NoWait}, m \in LockModes, rid \in Rids :
       IF m \in {"IS", "IX", "SIX"}
       THEN LockRow(t, m, TableOf(rid), rid)
              => RefusedRow(t, "ATTEMPTED_INTENTION_LOCK_ON_ROW")
       ELSE IF m = "X" /\ ~HoldsWriteIntent(t, TableOf(rid))
       THEN LockRow(t, m, TableOf(rid), rid)
              => RefusedRow(t, "TABLE_LOCK_NOT_PRESENT")
       ELSE outcome'[3] \in {"ATTEMPTED_INTENTION_LOCK_ON_ROW", "TABLE_LOCK_NOT_PRESENT"}
              => ~LockRow(t, m, TableOf(rid), rid)]_vars

\* C11's case: a transaction that holds only an IS or S lock on the table was
\* refused an X row lock with TABLE_LOCK_NOT_PRESENT and has no request in
\* the queue of any row.
C11_Witness ==
  \E t \in Txns, o \in DOMAIN table_lock_map_ :
    /\ outcome = <<t, "LockRow", "TABLE_LOCK_NOT_PRESENT">>
    /\ state[t] = "ABORTED"
    /\ Holds(TableRq(o), t, "IS") \/ Holds(TableRq(o), t, "S")
    /\ \A rid \in DOMAIN row_lock_map_ : IndexOf(row_lock_map_[rid].rq, t) = 0


\* The queue a blocked transaction waits in, before and after the step.
WaitQueue(t) == LockMap(wait[t].kind)[wait[t].key]
WaitQueueAfter(t) ==
  IF wait[t].kind = "table" THEN table_lock_map_'[wait[t].key] ELSE row_lock_map_'[wait[t].key]

\* The requests of the other transactions, in queue order.
OthersOf(rq, t) == SelectSeq(rq, LAMBDA r : r.txn # t)

\* C12: a transaction set ABORTED while blocked in LockTable or LockRow has
\* been notified; its wake-up returns false from that call, takes its
\* ungranted request (its only request there) out of the queue, resets
\* upgrading_ if it was upgrading, and leaves the requests of the others and its
\* own lock sets as they were: it returns no true and keeps no granted request.
C12_AbortedWaiterUnwinds ==
  /\ [](\A t \in Txns : (wait[t] # NoWait /\ state[t] = "ABORTED") => t \in notified)
  /\ [][\A t \in {u \in Txns : wait[u] # NoWait /\ state[u] = "ABORTED"} :
          Wake(t) =>
            /\ outcome' = <<t, LockCall(wait[t].kind), "false">>
            /\ ~WaitQueue(t).rq[IndexOf(WaitQueue(t).rq, t)].granted
            /\ IndexOf(WaitQueueAfter(t).rq, t) = 0
            /\ WaitQueueAfter(t).rq = OthersOf(WaitQueue(t).rq, t)
            /\ WaitQueueAfter(t).upgrading =
                 IF wait[t].upgrade THEN INVALID_TXN_ID ELSE WaitQueue(t).upgrading
            /\ wait[t].upgrade => WaitQueue(t).upgrading = t
            /\ wait'[t] = NoWait
            /\ state'[t] = "ABORTED"
            /\ UNCHANGED <<tls, rls>>]_vars

\* C12's case: a transaction that held X on a row was set ABORTED while it
\* waited for the upgrade of its table lock; its LockTable has returned false,
\* its request is out of the table queue and upgrading_ is reset.
C12_Witness ==
  \E t \in Txns, o \in DOMAIN table_lock_map_ :
    /\ outcome = <<t, "LockTable", "false">>
    /\ state[t] = "ABORTED"
    /\ wait[t] = NoWait
    /\ IndexOf(TableRq(o), t) = 0
    /\ table_lock_map_[o].upgrading = INVALID_TXN_ID
    /\ \E p \in rls[t]["X"] : p[1] = o


\* ------------------------------------------------------------- buffer pool
\* The free list is empty and every frame holds a page with pin count > 0.
AllPinned ==
  /\ free_list_ = <<>>
  /\ \A f \in Frames : pages_[f].page_id_ # INVALID_PAGE_ID /\ pages_[f].pin_count_ > 0

\* Nothing of the pool but the record of the last call changes in this step.
PoolUnchanged ==
  UNCHANGED <<pages_, free_list_, page_table_, replacer_, next_page_id_, disk>>

\* C13: NewPage, and FetchPage of a page that is not resident, return null
\* exactly when the free list is empty and every frame holds a page with pin
\* count > 0; a call that fails changes no frame and takes no page id, one
\* that succeeds leaves the page resident in the frame it returns, pinned once.
C13_NullIffAllPinned ==
  [][/\ NewPgImp =>
          /\ result'[3] = NULL <=> AllPinned
          /\ result'[3] = NULL => PoolUnchanged
          /\ result'[3] # NULL =>
               /\ next_page_id_' = next_page_id_ + 1
               /\ pages_'[result'[3]].page_id_ = next_page_id_
               /\ pages_'[result'[3]].pin_count_ = 1
     /\ \A p \in PageIds \ DOMAIN page_table_ :
          FetchPgImp(p) =>
            /\ result'[3] = NULL <=> AllPinned
            /\ result'[3] = NULL => PoolUnchanged
            /\ result'[3] # NULL =>
                 /\ pages_'[result'[3]].page_id_ = p
                 /\ pages_'[result'[3]].pin_count_ = 1]_vars

\* C13's case: with every frame pinned a NewPage has returned null and the
\* next page id is the one the last successful NewPage left.
C13_Witness ==
  /\ result = <<"NewPage", INVALID_PAGE_ID, NULL>>
  /\ AllPinned
  /\ next_page_id_ = PoolSize

\* The frames that hold a page.
Holding == {f \in Frames : pages_[f].page_id_ # INVALID_PAGE_ID}

\* The replacer considers the frame evictable.
Evictable(f) == replacer_.frames_[f].valid_ /\ replacer_.frames_[f].evictable_

\* C14: for every frame that holds a page, the pin count is > 0 exactly when
\* the replacer does not consider the frame evictable; and in every step a
\* page with pin count > 0 stays in its frame and the page table still maps
\* it to that frame.
C14_PinnedNotEvictable ==
  /\ [](\A f \in Holding : pages_[f].pin_count_ > 0 <=> ~Evictable(f))
  /\ [][\A f \in Holding :
          pages_[f].pin_count_ > 0 =>
            /\ pages_'[f].page_id_ = pages_[f].page_id_
            /\ pages_[f].page_id_ \in DOMAIN page_table_'
            /\ page_table_'[pages_[f].page_id_] = f]_vars

\* C14's case: a page has been evicted (it is allocated, not deleted and not
\* resident) while another page stayed pinned in its frame.
C14_Witness ==
  /\ \E p \in PageIds : p < next_page_id_ /\ ~Resident(p) /\ written[p] # DELETED
  /\ \E f \in Holding : pages_[f].pin_count_ > 0 /\ ~Evictable(f)
  /\ \E f \in Holding : pages_[f].pin_count_ = 0 /\ Evictable(f)

\* The frames on the free list.
FreeFrames == {free_list_[i] : i \in DOMAIN free_list_}

\* C15: the page table maps page id p to frame f exactly when frame f holds
\* page p; no page id is held by two frames; every frame is either on the free
\* list, once, holding no page, or off it holding a page that the page table
\* maps to it.
C15_PageTableConsistent ==
  /\ \A p \in PageIds, f \in Frames :
       (p \in DOMAIN page_table_ /\ page_table_[p] = f) <=> pages_[f].page_id_ = p
  /\ DOMAIN page_table_ \subseteq PageIds
  /\ \A f, g \in Holding : pages_[f].page_id_ = pages_[g].page_id_ => f = g
  /\ Cardinality(FreeFrames) = Len(free_list_)
  /\ \A f \in Frames :
       IF f \in FreeFrames
       THEN pages_[f].page_id_ = INVALID_PAGE_ID
       ELSE /\ pages_[f].page_id_ \in DOMAIN page_table_
            /\ page_table_[pages_[f].page_id_] = f

\* C15's case: after an eviction and a DeletePage one frame is back on the
\* free list and the other holds a page that came in by FetchPage.
C15_Witness ==
  /\ Len(free_list_) = 1
  /\ \E p \in PageIds : written[p] = DELETED
  /\ \E p \in DOMAIN page_table_ : result = <<"FetchPage", p, page_table_[p]>>
  /\ next_page_id_ = MaxPages

\* The contents of page p: in its frame if resident, else on disk.
Contents(p) == IF Resident(p) THEN pages_[page_table_[p]].data_ ELSE disk[p]

\* The pages NewPage has handed out and no DeletePage has returned true for.
LivePages == {p \in PageIds : p < next_page_id_ /\ written[p] # DELETED}

\* C16: a dirty page that leaves its frame (and is not being deleted) is on
\* disk with the contents it had; the contents of every page never deleted
\* are those the last holder that unpinned it with is_dirty left (zeroes if
\* there was none), and they are what a successful FetchPage of it returns.
C16_WriteBackBeforeReuse ==
  /\ [](\A p \in LivePages : Contents(p) = written[p])
  /\ [][/\ \A f \in Holding :
             ( /\ pages_[f].is_dirty_
               /\ pages_'[f].page_id_ # pages_[f].page_id_
               /\ written'[pages_[f].page_id_] # DELETED )
               => disk'[pages_[f].page_id_] = pages_[f].data_
        /\ \A p \in LivePages :
             (FetchPgImp(p) /\ result'[3] # NULL)
               => /\ pages_'[result'[3]].page_id_ = p
                  /\ pages_'[result'[3]].data_ = written[p]]_vars

\* C16's case: with no page ever deleted, a page whose holder left contents 1
\* in it was evicted dirty and has come back by FetchPage with those contents
\* (its frame has one access recorded: the page was installed by this call).
C16_Witness ==
  \E p \in DOMAIN page_table_ :
    /\ result = <<"FetchPage", p, page_table_[p]>>
    /\ Len(replacer_.frames_[page_table_[p]].history_) = 1
    /\ pages_[page_table_[p]].data_ = 1
    /\ written[p] = 1
    /\ \A q \in PageIds : written[q] # DELETED

\* C17: UnpinPage(p, is_dirty) returns false and changes nothing when p is not
\* resident or its pin count is 0; otherwise it returns true, the pin count
\* goes down by one, the dirty flag becomes its old value OR is_dirty, the
\* frame is evictable afterwards exactly when the pin count reached 0, and
\* the page stays in its frame.  (A step is such a call only if it records
\* the call in result.)
C17_UnpinPage ==
  [][\A p \in {q \in PageIds : result'[1] = "UnpinPage" /\ result'[2] = q},
        is_dirty \in BOOLEAN, data \in Data :
       UnpinPgImp(p, is_dirty, data) =>
         IF ~Resident(p) \/ pages_[page_table_[p]].pin_count_ = 0
         THEN result'[3] = FALSE /\ PoolUnchanged
         ELSE LET f == page_table_[p] IN
              /\ result'[3] = TRUE
              /\ pages_'[f].pin_count_ = pages_[f].pin_count_ - 1
              /\ pages_'[f].is_dirty_ = (pages_[f].is_dirty_ \/ is_dirty)
              /\ pages_'[f].page_id_ = p
              /\ Evictable(f)' <=> pages_'[f].pin_count_ = 0
              /\ \A g \in Frames \ {f} : pages_'[g] = pages_[g]
              /\ UNCHANGED <<free_list_, page_table_, next_page_id_, disk>>]_vars

\* C17's case: an UnpinPage returned true for a page pinned twice, which is
\* still pinned, dirty and not evictable, while the other frame holds a page
\* whose last unpin made it evictable.
C17_Witness ==
  \E p \in DOMAIN page_table_ :
    /\ result = <<"UnpinPage", p, TRUE>>
    /\ pages_[page_table_[p]].pin_count_ = 1
    /\ pages_[page_table_[p]].is_dirty_
    /\ ~Evictable(page_table_[p])
    /\ \E g \in Holding : pages_[g].pin_count_ = 0 /\ Evictable(g)

\* C18: DeletePage(p) returns true and changes nothing when p is not
\* resident, returns false and changes nothing when p is pinned; otherwise it
\* returns true, p leaves the page table, the replacer no longer tracks the
\* frame (and counts one frame less), the frame is emptied and goes to the
\* back of the free list.  (A step is such a call only if it records the call
\* in result.)
C18_DeletePage ==
  [][\A p \in {q \in PageIds : result'[1] = "DeletePage" /\ result'[2] = q} :
       DeletePgImp(p) =>
         IF ~Resident(p)
         THEN result'[3] = TRUE /\ PoolUnchanged
         ELSE LET f == page_table_[p] IN
              IF pages_[f].pin_count_ > 0
              THEN result'[3] = FALSE /\ PoolUnchanged /\ UNCHANGED written
              ELSE /\ result'[3] = TRUE
                   /\ p \notin DOMAIN page_table_'
                   /\ \A q \in DOMAIN page_table_ \ {p} :
                        q \in DOMAIN page_table_' /\ page_table_'[q] = page_table_[q]
                   /\ replacer_'.frames_[f] = Frame(replacer_.k_)
                   /\ Size(replacer_') = Size(replacer_) - 1
                   /\ free_list_' = Append(free_list_, f)
                   /\ pages_'[f] = EmptyPage
                   /\ UNCHANGED <<next_page_id_, disk>>]_vars

\* C18's case: DeletePage returned true for a page that is not resident, the
\* frame a DeletePage emptied is on the free list (every frame had been taken:
\* PoolSize pages were handed out), and the other frame holds a pinned page.
C18_Witness ==
  \E p \in PageIds :
    /\ result = <<"DeletePage", p, TRUE>>
    /\ p < next_page_id_
    /\ ~Resident(p)
    /\ Len(free_list_) = 1
    /\ pages_[free_list_[1]] = EmptyPage
    /\ ~replacer_.frames_[free_list_[1]].valid_
    /\ \E g \in Holding : pages_[g].pin_count_ > 0
    /\ next_page_id_ = PoolSize

\* The frame ids of the replacer.
ReplacerIds == 0..(replacer_.replacer_size_ - 1)

\* The frames Evict may choose from.
EvictableFrames == {f \in ReplacerIds : replacer_.frames_[f].evictable_}

\* Of those, the frames with fewer than k recorded accesses.
FewerThanK == {f \in EvictableFrames : Len(replacer_.frames_[f].history_) < replacer_.k_}

\* The timestamp of the first access of a frame with fewer than k accesses.
EarliestAccess(f) == replacer_.frames_[f].history_[1]

\* The timestamp of the k-th most recent access of a frame with k or more.
KthMostRecent(f) ==
  LET h == replacer_.frames_[f].history_ IN h[Len(h) - replacer_.k_ + 1]

\* C19: Evict returns false exactly when no frame is evictable; otherwise the
\* frame it returns is evictable and, if some evictable frame has fewer than k
\* recorded accesses, is the one of those whose access is earliest, else is
\* the one whose k-th most recent access is oldest.
C19_EvictChoice ==
  [][(result'[1] = "Evict" /\ ReplacerEvict) =>
       /\ result'[3] = (EvictableFrames # {})
       /\ EvictableFrames # {} =>
            LET v == result'[2] IN
            /\ v \in EvictableFrames
            /\ IF FewerThanK # {}
               THEN /\ v \in FewerThanK
                    /\ \A g \in FewerThanK : EarliestAccess(v) <= EarliestAccess(g)
               ELSE \A g \in EvictableFrames : KthMostRecent(v) <= KthMostRecent(g)]_vars

\* C19's case: with k = 2 the accesses were to frames 1, 2, 3, 1, 2 in this
\* order, every frame stayed evictable, and Evict has returned frame 3.
C19_Witness ==
  /\ replacer_.k_ = 2
  /\ result = <<"Evict", 3, TRUE>>
  /\ replacer_.current_timestamp_ = 5
  /\ replacer_.frames_[1].history_ = <<0, 3>> /\ replacer_.frames_[1].evictable_
  /\ replacer_.frames_[2].history_ = <<1, 4>> /\ replacer_.frames_[2].evictable_
  /\ replacer_.frames_[3].history_ = <<>>
  /\ replacer_.frames_[0].history_ = <<>>

\* The frames that are both valid and evictable.
ValidEvictable ==
  {f \in DOMAIN replacer_.frames_ : replacer_.frames_[f].valid_ /\ replacer_.frames_[f].evictable_}

\* C20: Size() is the number of frames that are both valid and evictable;
\* SetEvictable on a frame with no recorded access changes nothing of the
\* replacer, and so does SetEvictable with the value the frame already has.
C20_SizeCountsEvictable ==
  /\ [](Size(replacer_) = Cardinality(ValidEvictable))
  /\ [][\A f \in {g \in ReplacerIds : result'[1] = "SetEvictable" /\ result'[2] = g},
          b \in BOOLEAN :
          ( /\ ReplacerSetEvictable(f, b)
            /\ \/ replacer_.frames_[f].history_ = <<>>
               \/ replacer_.frames_[f].evictable_ = b )
            => replacer_' = replacer_]_vars

\* C20's case: SetEvictable was called on a frame with no recorded access
\* while two frames are evictable, one frame with accesses is not, and the
\* fourth access has been recorded.
C20_Witness ==
  \E f \in ReplacerIds :
    /\ result = <<"SetEvictable", f, "void">>
    /\ replacer_.frames_[f].history_ = <<>>
    /\ Size(replacer_) = 2
    /\ \E g \in ReplacerIds : replacer_.frames_[g].valid_ /\ ~replacer_.frames_[g].evictable_
    /\ replacer_.current_timestamp_ >= 4

\* What Find is to report for a key whose last Insert no Remove followed.
Expected(key) == IF latest[key] = ABSENT THEN <<FALSE, ABSENT>> ELSE <<TRUE, latest[key]>>

\* The places <<bucket, position>> of the table that hold the key.
PlacesOf(key) ==
  {pl \in UNION {{<<a, i>> : i \in DOMAIN buckets[a].list_} : a \in DOMAIN buckets} :
     buckets[pl[1]].list_[pl[2]][1] = key}

\* C21: after any Insert and Remove calls Find(k) reports the value of the
\* last Insert(k, v) that no Remove(k) followed and reports absence for every
\* other key; every such key is stored in exactly one place of the table with
\* that value and no other key is stored anywhere; a call of Find returns this.
C21_FindLatest ==
  /\ [](\A key \in Keys :
          /\ HashFind(Table, key) = Expected(key)
          /\ Cardinality(PlacesOf(key)) = IF latest[key] = ABSENT THEN 0 ELSE 1
          /\ \A pl \in PlacesOf(key) : buckets[pl[1]].list_[pl[2]][2] = latest[key])
  /\ [][\A key \in {k \in Keys : found'[1] = "Find" /\ found'[2] = k} :
          ExtendibleFind(key) => <<found'[3], found'[4]>> = Expected(key)]_vars

\* C21's case: the directory has doubled twice, at least four keys are
\* stored, some key was inserted and removed again, and Find has just
\* returned the value 1 of a key stored in a bucket made by a split.
C21_Witness ==
  /\ global_depth_ = 2
  /\ Cardinality({k \in Keys : latest[k] # ABSENT}) >= 4
  /\ \E k \in Keys : latest[k] = ABSENT /\ found # <<"Remove", k, FALSE, ABSENT>>
  /\ \E k \in Keys :
       /\ found = <<"Find", k, TRUE, 1>>
       /\ buckets[dir_[DirIndexOf(Table, k)]].depth_ = 2

\* The slots of the directory.
Slots == DOMAIN dir_

\* C22: the directory has 2^g slots; every bucket's local depth is at most g;
\* two slots point to the same bucket exactly when they agree in the low l
\* bits, l being the bucket's local depth; every key stored in a bucket
\* hashes to a slot that points to the bucket; no bucket holds more than
\* bucket_size entries.
C22_DirectoryShape ==
  /\ Slots = 0..(2 ^ global_depth_ - 1)
  /\ \A s \in Slots : dir_[s] \in DOMAIN buckets /\ buckets[dir_[s]].depth_ <= global_depth_
  /\ \A s, t \in Slots :
       dir_[s] = dir_[t] <=> s % (2 ^ buckets[dir_[s]].depth_) = t % (2 ^ buckets[dir_[s]].depth_)
  /\ \A a \in DOMAIN buckets :
       /\ Len(buckets[a].list_) <= BucketSize
       /\ \A i \in DOMAIN buckets[a].list_ :
            dir_[Hash(buckets[a].list_[i][1]) % (2 ^ global_depth_)] = a

\* C22's case: after two doublings and an Insert a bucket of local depth 1 is
\* shared by two slots and a bucket of local depth 2 is full.
C22_Witness ==
  /\ global_depth_ = 2
  /\ num_buckets_ >= 3
  /\ \E s, t \in Slots : s # t /\ dir_[s] = dir_[t] /\ buckets[dir_[s]].depth_ = 1
  /\ \E a \in DOMAIN buckets : buckets[a].depth_ = 2 /\ Len(buckets[a].list_) = BucketSize
  /\ found[1] = "Insert"

\* ------------------------------------------------------------------ B+ tree
\* The keys the tree is to hold.
StoredKeys == {k \in TreeKeys : stored[k] # ABSENT}

\* No thread is inside a call of the tree.
Quiet == \A t \in Threads : threads[t].pc = "idle"

\* The entries that for (it = Begin(); !it.IsEnd(); ++it) gives.
Scan == Iterate(BT, LeftMost(BT, root_page_id_), 0, NumTreeKeys + MaxTreePages)

\* C23: after distinct keys were inserted into an empty tree, in any order,
\* iterating from Begin() until IsEnd() gives exactly those keys, each once,
\* in ascending order.
C23_IterationAscending ==
  /\ fault = NONE
  /\ Len(Scan) = Cardinality(StoredKeys)
  /\ {Scan[i][1] : i \in DOMAIN Scan} = StoredKeys
  /\ \A i, j \in DOMAIN Scan : i < j => Scan[i][1] < Scan[j][1]

\* C23's case: every key was inserted, the last call was an Insert that
\* returned true, the tree has three levels and the iteration gives all the
\* keys.
C23_Witness ==
  /\ StoredKeys = TreeKeys
  /\ threads[1].op = "Insert" /\ threads[1].ret = 1
  /\ ~IsLeafPage(tree_pages[root_page_id_])
  /\ ~IsLeafPage(tree_pages[ValueAt(BT, root_page_id_, 0)])
  /\ Len(Scan) = NumTreeKeys

\* The children of the internal page p.
Children(p) == {ValueAt(BT, p, i) : i \in 0..(tree_pages[p].size_ - 1)}

\* The pages of the subtree of p, at most n levels down.
RECURSIVE Under(_, _)
Under(p, n) ==
  IF p \notin DOMAIN tree_pages \/ n = 0 \/ IsLeafPage(tree_pages[p]) THEN {p}
  ELSE {p} \cup UNION {Under(c, n - 1) : c \in Children(p)}

\* The pages of the tree.
Nodes == IF root_page_id_ = INVALID_PAGE_ID THEN {} ELSE Under(root_page_id_, MaxTreePages)

\* The depths of the leaves of the subtree of p, p being at depth d.
RECURSIVE LeafDepths(_, _)
LeafDepths(p, d) ==
  IF d > MaxTreePages \/ IsLeafPage(tree_pages[p]) THEN {d}
  ELSE UNION {LeafDepths(c, d + 1) : c \in Children(p)}

\* The leaves of the subtree of p from left to right.
RECURSIVE LeavesUnder(_, _)
LeavesUnder(p, n) ==
  IF n = 0 \/ IsLeafPage(tree_pages[p]) THEN <<p>>
  ELSE LET RECURSIVE from(_)
           from(i) == IF i >= tree_pages[p].size_ THEN <<>>
                      ELSE LeavesUnder(ValueAt(BT, p, i), n - 1) \o from(i + 1)
       IN from(0)

\* The leaves next_page_id leads through from leaf on, at most n of them.
RECURSIVE Chain(_, _)
Chain(leaf, n) ==
  IF leaf = INVALID_PAGE_ID \/ leaf \notin DOMAIN tree_pages \/ n = 0 THEN <<>>
  ELSE <<leaf>> \o Chain(tree_pages[leaf].next_page_id_, n - 1)

\* The keys of the leaves of a sequence of leaves, in the order stored.
RECURSIVE KeysAlong(_)
KeysAlong(leaves) ==
  IF leaves = <<>> THEN <<>>
  ELSE [i \in 1..tree_pages[Head(leaves)].size_ |-> tree_pages[Head(leaves)].array_[i][1]]
       \o KeysAlong(Tail(leaves))

\* The structure C25 states, of the tree as it is.
WellFormed ==
  /\ Nodes \subseteq DOMAIN tree_pages
  /\ \A p \in Nodes \ {root_page_id_} :
       LET n == tree_pages[p] IN
       /\ GetMinSize(n) <= n.size_
       /\ n.size_ <= IF IsLeafPage(n) THEN n.max_size_ - 1 ELSE n.max_size_
  /\ Cardinality(LeafDepths(root_page_id_, 0)) = 1
  /\ \A p \in Nodes : ~IsLeafPage(tree_pages[p]) =>
       \A c \in Children(p) : tree_pages[c].parent_page_id_ = p
  /\ LET leaves == LeavesUnder(root_page_id_, MaxTreePages)
         keys   == KeysAlong(leaves)
     IN /\ Chain(leaves[1], MaxTreePages + 1) = leaves
        /\ \A i, j \in DOMAIN keys : i < j => keys[i] < keys[j]

\* C25: after every Insert or Remove every non-root leaf has between min_size
\* and max_size - 1 entries and every non-root internal page between
\* min_size and max_size, all leaves are at the same depth, every child's
\* parent_page_id names the page that points to it, and next_page_id from
\* the leftmost leaf on visits every leaf exactly once, in key order.
C25_Structure ==
  Quiet /\ threads[1].op \in {"Insert", "Remove"} /\ root_page_id_ # INVALID_PAGE_ID
    => WellFormed


\* What GetValue(key) gives when thread 1 calls it now: the value it
\* returns, ABSENT for an empty result, FAILS when the call does not return.
FAILS == ABSENT - 1
Lookup(key) ==
  LET s == Run(Call(BT, 1, "GetValue", key, 0), 1) IN
  IF s.fault = NONE /\ s.th[1].pc = "idle" THEN s.th[1].ret ELSE FAILS

\* C24: after any sequence of Insert and Remove calls, GetValue(k) returns
\* the value of k when k was inserted and not removed since, and an empty
\* result otherwise: after Remove(k) the key k is gone and every other key
\* is still retrievable with its value.
C24_GetValueSound ==
  Quiet /\ threads[1].op \in {"Insert", "Remove"} =>
    \A k \in TreeKeys : Lookup(k) = stored[k]


\* Some thread inside a call can take the latch it waits for.
SomeThreadMoves == \E t \in Threads : CanLatch(BT, t)

\* C26: with several threads inside Insert and Remove on disjoint key ranges
\* every call comes to its end, no thread waits for ever for a page latch or
\* for the root latch, and once all calls have returned the tree holds
\* exactly the keys that were inserted and not removed.
C26_ThreadsFinish ==
  /\ fault = NONE
  /\ \A t \in Threads : threads[t].pc # "hung"
  /\ ~Quiet => SomeThreadMoves
  /\ Quiet => {Scan[i][1] : i \in DOMAIN Scan} = StoredKeys

\* C27: Insert(k, v) of a key the tree holds returns false, leaves the value
\* of k and every page of the tree as they are, all latches free and all
\* pins given back; Insert of a key the tree does not hold returns true.
C27_InsertDuplicate ==
  Quiet /\ threads[1].op \in {"Insert", "Remove"} =>
    \A k \in TreeKeys, v \in TreeValues :
      LET s == Run(Call(BT, 1, "Insert", k, v), 1) IN
      s.fault # "bound" =>
        /\ s.fault = NONE
        /\ s.th[1].pc = "idle"
        /\ IF stored[k] = ABSENT THEN s.th[1].ret = 1
           ELSE /\ s.th[1].ret = 0
                /\ s.pg = tree_pages
                /\ s.root_page_id_ = root_page_id_
                /\ s.root_latch_ = root_latch_


\* The cycles of a waits-for graph: transactions, each once, of which each
\* waits for the next and the last for the first.
Cycles(edges) ==
  {c \in UNION {[1..n -> DetectTxns] : n \in 2..NumDetectTxns} :
     /\ \A i, j \in 1..Len(c) : c[i] = c[j] => i = j
     /\ \A i \in 1..Len(c) : <<c[i], c[(i % Len(c)) + 1]>> \in edges}

\* The transactions of a cycle.
Participants(c) == {c[i] : i \in 1..Len(c)}

\* C29: whenever the deadlock detector finds a cycle in the waits-for graph,
\* the transaction it aborts is a participant of a cycle of the graph, not
\* merely a transaction on the path of the search that led to the cycle, and
\* has the largest txn_id among the participants of that cycle.
C29_VictimOnCycle ==
  [][HasCycleRound =>
       \E c \in Cycles(waits_for_) :
         /\ victim' \in Participants(c)
         /\ victim' = Max(Participants(c))]_vars


\* Two tuples are equal on all sort keys: cmp puts neither before the other.
SameSortKeys(a, b) == ~Cmp(order_bys, a, b) /\ ~Cmp(order_bys, b, a)

\* The shorter of the limit and the child's output.
Limit == IF topn_n < Len(child_executor_) THEN topn_n ELSE Len(child_executor_)

\* C28: TopN with limit N gives what the first N tuples of Sort over the same
\* child with the same order-by list are, up to the order among tuples equal
\* on all sort keys: as many tuples, at every place a tuple equal on all sort
\* keys to the one Sort has there, and the sequence is the first N of an order
\* Sort may leave.  While TopN drains the child its queue never holds more
\* than N + 1 tuples.
C28_TopNIsSortPrefix ==
  /\ Len(topn_q) <= topn_n + 1
  /\ topn_pc = "ready" /\ sort_pc = "ready" =>
       /\ Len(topn_tuples_) = Limit
       /\ \A i \in 1..Limit : SameSortKeys(topn_tuples_[i], sort_tuples_[i])
       /\ \E p \in StdSort(child_executor_, order_bys) : topn_tuples_ = SubSeq(p, 1, Limit)

\* Both executors are initialised over three tuples with limit 2 and a DESC
\* key; TopN's two tuples differ on the sort keys, and its second tuple is
\* another than Sort's second, equal to it on all sort keys.
C28_Witness ==
  /\ topn_pc = "ready" /\ sort_pc = "ready"
  /\ Len(child_executor_) = 3 /\ topn_n = 2
  /\ \E i \in 1..Len(order_bys) : order_bys[i][1] = "DESC"
  /\ Cmp(order_bys, topn_tuples_[1], topn_tuples_[2])
  /\ topn_tuples_[2] # sort_tuples_[2]


\* t holds a lock on table o and LockTable(t, m, o) goes the upgrade path: m
\* is another mode, no upgrade is pending and the pair is one LockTable lets
\* pass.
Upgrades(t, m, o) ==
  /\ RequestsOtherMode(t, m, o)
  /\ table_lock_map_[o].upgrading = INVALID_TXN_ID
  /\ ListedUpgrade(HeldMode(TableRq(o), t), m)

\* The request at position i stands after every granted and before every
\* ungranted request of the queue.
PlacedBetween(rq, i) ==
  /\ \A j \in 1..(i - 1) : rq[j].granted
  /\ \A j \in (i + 1)..Len(rq) : ~rq[j].granted

\* The requests of a queue that wait, in the order of the queue.
Ungranted(rq) == SelectSeq(rq, LAMBDA r : ~r.granted)

\* The pending upgrade of every table queue is not granted and stands between
\* the granted and the other ungranted requests.
PendingUpgradeFirst ==
  \A o \in DOMAIN table_lock_map_ :
    LET q == table_lock_map_[o]
        i == IndexOf(q.rq, q.upgrading)
    IN q.upgrading # INVALID_TXN_ID =>
         i # 0 /\ ~q.rq[i].granted /\ PlacedBetween(q.rq, i)

\* The upgrade of t to X on table o is pending.
PendingX(t, o) ==
  /\ o \in DOMAIN table_lock_map_
  /\ table_lock_map_[o].upgrading = t
  /\ IndexOf(TableRq(o), t) # 0
  /\ TableRq(o)[IndexOf(TableRq(o), t)].mode = "X"
  /\ ~TableRq(o)[IndexOf(TableRq(o), t)].granted

\* Another transaction than t holds S on table o.
OtherHoldsShared(t, o) ==
  \E j \in 1..Len(TableRq(o)) :
    TableRq(o)[j].txn # t /\ TableRq(o)[j].granted /\ TableRq(o)[j].mode = "S"

\* C30: an upgrade request is placed after every granted and before every
\* ungranted request of the queue, the waiters that were queued stay behind
\* it in their order and none of them is granted while it is pending; an
\* upgrade from S to X is granted at once when the upgrader is the only
\* granted holder and is not granted in any step that leaves another
\* transaction holding S.
C30_UpgradeAhead ==
  [][/\ PendingUpgradeFirst'
     /\ \A t \in Txns, m \in LockModes, o \in Tables :
          Upgrades(t, m, o) =>
            LET rq  == TableRq(o)
                rq1 == table_lock_map_'[o].rq
                i   == IndexOf(rq1, t)
            IN /\ i # 0
               /\ rq1[i].mode = m
               /\ PlacedBetween(rq1, i)
               /\ SubSeq(rq1, i + 1, Len(rq1)) = Ungranted(rq)
               /\ HeldMode(rq, t) = "S" /\ m = "X" =>
                    /\ (\A j \in 1..Len(rq) : rq[j].granted => rq[j].txn = t)
                         => rq1[i].granted /\ wait'[t] = NoWait
                    /\ OtherHoldsShared(t, o) => ~rq1[i].granted
     /\ \A t \in Txns, o \in Tables :
          PendingX(t, o) /\ OtherHoldsShared(t, o)' => PendingX(t, o)']_vars

\* An upgrade from S to X is pending behind the S of another transaction and
\* ahead of a third transaction that was waiting before the upgrade came.
C30_Witness ==
  \E t \in Txns, o \in Tables :
    /\ PendingX(t, o)
    /\ wait[t] = [kind |-> "table", key |-> o, upgrade |-> TRUE]
    /\ OtherHoldsShared(t, o)
    /\ \E j \in 1..Len(TableRq(o)) :
         j > IndexOf(TableRq(o), t) /\ ~TableRq(o)[j].granted


\* The row queue of rid, empty when the row has none.
RowRq(rid) == IF rid \in DOMAIN row_lock_map_ THEN row_lock_map_[rid].rq ELSE <<>>

\* No lock-manager call of transaction t is in progress: its thread is not
\* inside LockTable or LockRow waiting on a queue.
NoCallInProgress(t) == wait[t] = NoWait

\* C31: whenever no lock-manager call is in progress for a transaction, its
\* lock sets agree with the queues: a table is in its set of mode m exactly if
\* the table's queue holds a granted request of it in mode m, a row is in its
\* S or X row set (under the row's table) exactly if the row's queue holds a
\* granted request of it in that mode; and no transaction ever has more than
\* one request in a queue.
C31_LockSetsAgree ==
  /\ \A t \in Txns : NoCallInProgress(t) =>
       /\ \A o \in Tables, m \in LockModes :
            o \in tls[t][m] <=> Holds(TableRq(o), t, m)
       /\ \A m \in LockModes : tls[t][m] \subseteq Tables
       /\ \A rid \in Rids, m \in RowModes :
            <<TableOf(rid), rid>> \in rls[t][m] <=> Holds(RowRq(rid), t, m)
       /\ \A m \in RowModes : rls[t][m] \subseteq {<<TableOf(rid), rid>> : rid \in Rids}
  /\ \A kq \in Queues, t \in Txns :
       Cardinality({i \in 1..Len(Rq(kq)) : Rq(kq)[i].txn = t}) <= 1

\* A transaction with no call in progress holds IX on a table and X on a row
\* of it and no S on a row, while another transaction waits
\* on that row.
C31_Witness ==
  \E t \in Txns, rid \in Rids :
    /\ NoCallInProgress(t)
    /\ TableOf(rid) \in tls[t]["IX"]
    /\ <<TableOf(rid), rid>> \in rls[t]["X"]
    /\ rls[t]["S"] = {}
    /\ \E u \in Txns : u # t /\ wait[u] = [kind |-> "row", key |-> rid, upgrade |-> FALSE]


\* Transaction t holds no lock on the object: no request of it stands in the
\* object's queue and the object is in none of its lock sets.
HoldsNothingOn(t, kind, key) ==
  /\ key \in DOMAIN LockMap(kind) => IndexOf(LockMap(kind)[key].rq, t) = 0
  /\ IF kind = "table"
     THEN \A m \in LockModes : key \notin tls[t][m]
     ELSE \A m \in RowModes : <<TableOf(key), key>> \notin rls[t][m]

\* The step is an unlock by c's transaction of the object of c that fails
\* with reason why.
UnlockFailsWith(c, why) ==
  IF c[2] = "table"
  THEN UnlockTable(c[1], c[3]) => outcome' = <<c[1], "UnlockTable", why>>
  ELSE UnlockRow(c[1], TableOf(c[3]), c[3]) => outcome' = <<c[1], "UnlockRow", why>>

\* C32 as stated: a transaction whose upgrade was cancelled because it was
\* aborted while waiting holds no lock on that object from then on, and every
\* later UnlockTable or UnlockRow on the object by it fails with
\* ATTEMPTED_UNLOCK_BUT_NO_LOCK_HELD.
C32_UnlockNoLockHeld ==
  [][\A c \in cancelled :
       /\ HoldsNothingOn(c[1], c[2], c[3])
       /\ UnlockFailsWith(c, "ATTEMPTED_UNLOCK_BUT_NO_LOCK_HELD")]_vars

\* C32 amended: a transaction whose upgrade was cancelled because it was
\* aborted while waiting holds no lock on that object from then on, the old
\* request being neither in the queue nor in its lock set; a later UnlockRow
\* on the object by it fails with ATTEMPTED_UNLOCK_BUT_NO_LOCK_HELD, and a
\* later UnlockTable fails with TABLE_UNLOCKED_BEFORE_UNLOCKING_ROWS while it
\* still holds an S or X lock on a row of the table and with
\* ATTEMPTED_UNLOCK_BUT_NO_LOCK_HELD when it holds none.
C32_CancelledUpgrade ==
  [][/\ \A c \in cancelled' : HoldsNothingOn(c[1], c[2], c[3])'
     /\ \A c \in cancelled :
          UnlockFailsWith(c,
            IF c[2] = "table" /\ \E p \in rls[c[1]]["S"] \cup rls[c[1]]["X"] : p[1] = c[3]
            THEN "TABLE_UNLOCKED_BEFORE_UNLOCKING_ROWS"
            ELSE "ATTEMPTED_UNLOCK_BUT_NO_LOCK_HELD")]_vars

\* A transaction whose table upgrade was cancelled has called UnlockTable on
\* the table while it still held a row lock of it.
C32_Witness ==
  \E c \in cancelled :
    /\ c[2] = "table"
    /\ outcome = <<c[1], "UnlockTable", "TABLE_UNLOCKED_BEFORE_UNLOCKING_ROWS">>
    /\ HoldsNothingOn(c[1], c[2], c[3])


\* The pages thread t holds the read latch of, and the write latch of.
ReadLatched(t)  == {p \in DOMAIN tree_pages : t \in tree_pages[p].latch.r}
WriteLatched(t) == {p \in DOMAIN tree_pages : tree_pages[p].latch.w = t}

\* Thread t holds root_latch_.
HoldsRootLatch(t) == root_latch_.w = t \/ t \in root_latch_.r

\* Thread t holds no latch at all.
Unlatched(t) == ~HoldsRootLatch(t) /\ ReadLatched(t) = {} /\ WriteLatched(t) = {}

\* C33: during GetValue a thread holds at most two page read latches at any
\* moment, the parent's and the child's; it still holds the parent's when it
\* takes the child's, holds root_latch_ up to the latch of the root page and
\* no longer once that page is latched, and holds no latch when the call
\* has returned.  When Insert or Remove has returned, the calling thread
\* holds neither root_latch_ nor a page latch and the transaction's page set
\* is empty.
C33_LatchCoupling ==
  [][\A t \in Threads :
       LET me == threads'[t] IN
       /\ me.op = "GetValue" /\ me.pc = "page_latch" =>
            /\ Cardinality(ReadLatched(t) \cup ReadLatched(t)') <= 2
            /\ WriteLatched(t)' = {}
            /\ IF me.parent = NULL
               THEN HoldsRootLatch(t)' /\ ReadLatched(t)' = {}
               ELSE ~HoldsRootLatch(t)' /\ ReadLatched(t)' = {me.parent}
       /\ me.pc = "idle" /\ me.op \in {"GetValue", "Insert", "Remove"} =>
            Unlatched(t)' /\ me.page_set = <<>>]_vars

\* GetValue stands two levels below the root with the read latch of the
\* parent, about to take the child's.
C33_Witness ==
  /\ threads[1].op = "GetValue" /\ threads[1].pc = "page_latch"
  /\ threads[1].parent # NULL /\ threads[1].parent # root_page_id_
  /\ ReadLatched(1) = {threads[1].parent}


\* The step is the return of a call of thread t.
Returns(t) == threads[t].pc # "idle" /\ threads'[t].pc = "idle" /\ fault' = NONE

Entries(pages, leaf) == SubSeq(pages[leaf].array_, 1, pages[leaf].size_)

\* C35: an iterator that stands on a leaf holds a read latch on that leaf and
\* on no other page, from Begin and after every operator++, and while it
\* stands on the leaf no Insert or Remove changes the leaf's entries.
C35_IteratorLatched ==
  [][/\ it_live' /\ it_leaf' # NULL =>
          \A p \in DOMAIN tree_pages' : (tree_pages'[p].latch.r # {}) <=> (p = it_leaf')
     /\ (it_live /\ it_live' /\ it_leaf # NULL /\ it_leaf' = it_leaf) =>
          /\ it_leaf \in DOMAIN tree_pages'
          /\ Entries(tree_pages', it_leaf) = Entries(tree_pages, it_leaf)]_vars


\* Thread 1 takes root_latch_ for the call op on an empty tree.
EntersEmpty(op) ==
  /\ fault = NONE
  /\ root_page_id_ = INVALID_PAGE_ID
  /\ threads[1].pc = "root_latch" /\ threads[1].op = op
  /\ threads' # threads

\* C36: on an empty tree, never populated or emptied by Remove, no operation
\* fetches an invalid page: GetValue returns false and leaves root_latch_
\* free, Remove returns and changes nothing, Begin() is End(), and Insert
\* makes the root a leaf that holds the one key.
C36_EmptyTreeHandled ==
  [][/\ EntersEmpty("GetValue") =>
          /\ fault' = NONE
          /\ threads'[1].pc = "idle" /\ threads'[1].ret = ABSENT
          /\ root_latch_' = NoLatch
          /\ tree_pages' = tree_pages
     /\ EntersEmpty("Remove") =>
          /\ fault' = NONE
          /\ threads'[1].pc = "idle"
          /\ root_latch_' = NoLatch
          /\ tree_pages' = tree_pages /\ root_page_id_' = INVALID_PAGE_ID
     /\ (root_page_id_ = INVALID_PAGE_ID /\ ~it_live /\ it_live') =>
          /\ fault' = NONE
          /\ it_leaf' = NULL
          /\ tree_pages' = tree_pages
     /\ EntersEmpty("Insert") =>
          /\ fault' = NONE
          /\ threads'[1].pc = "idle"
          /\ root_page_id_' \in DOMAIN tree_pages'
          /\ IsLeafPage(tree_pages'[root_page_id_'])
          /\ Entries(tree_pages', root_page_id_')
               = <<<<threads[1].key, threads[1].value>>>>]_vars


\* The keys stored in the leaves of the subtree of p.
SubtreeKeys(p) ==
  UNION {{tree_pages[q].array_[i][1] : i \in 1..tree_pages[q].size_} :
           q \in {u \in Under(p, MaxTreePages) \cap DOMAIN tree_pages :
                    IsLeafPage(tree_pages[u])}}

\* Every key of an internal page but the one of slot 0 is the lowest key of
\* the subtree its entry points to.
SeparatorsAreMinima ==
  \A p \in Nodes \cap DOMAIN tree_pages : ~IsLeafPage(tree_pages[p]) =>
    \A i \in 1..(tree_pages[p].size_ - 1) :
      LET below == SubtreeKeys(ValueAt(BT, p, i)) IN
      below # {} /\ KeyAt(BT, p, i) = Min(below)

\* C37: after any sequence of Insert and Remove calls, every entry (k_i, c_i)
\* with i >= 1 of every internal page has as k_i the minimum key stored in
\* the subtree of c_i.
C37_SeparatorIsMinimum ==
  Quiet /\ threads[1].op \in {"Insert", "Remove"} => SeparatorsAreMinima


\* The scan's transaction has a request in some queue.
ScanQueued ==
  \/ \E o \in DOMAIN table_lock_map_ : IndexOf(table_lock_map_[o].rq, ScanTxn) # 0
  \/ \E rid \in DOMAIN row_lock_map_ : IndexOf(row_lock_map_[rid].rq, ScanTxn) # 0

\* The scan's transaction holds S on the rows 1 .. n of the table.
ScanHoldsRows(n) == \A rid \in 1..n : <<TableOid, rid>> \in rls[ScanTxn]["S"]

\* C38: unless READ_UNCOMMITTED, when Init has returned the scan's
\* transaction holds IS on the table and when Next has returned a row it
\* holds S on that row.  Under READ_COMMITTED, when Next has returned false
\* for the first time the transaction holds no S lock on a row of the table
\* and no IS on the table and is GROWING; under REPEATABLE_READ it holds
\* the IS and the S of every row then; under READ_UNCOMMITTED it never has
\* a lock or a request.
C38_SeqScanLocks ==
  /\ (scan_pc = "ready" /\ iso[ScanTxn] # "READ_UNCOMMITTED" /\ returned \in {"Init", "true"}) =>
       /\ IsTableLocked(ScanTxn, "IS", TableOid)
       /\ returned = "true" => <<TableOid, iter_>> \in rls[ScanTxn]["S"]
  /\ (scan_pc = "ready" /\ iso[ScanTxn] = "READ_COMMITTED" /\ returned = "false"
        /\ scan_ends = 1) =>
       /\ SharedRowLockSet(ScanTxn, TableOid) = {}
       /\ ~IsTableLocked(ScanTxn, "IS", TableOid)
       /\ state[ScanTxn] = "GROWING"
  /\ (scan_pc = "ready" /\ iso[ScanTxn] = "REPEATABLE_READ" /\ returned = "false") =>
       /\ IsTableLocked(ScanTxn, "IS", TableOid)
       /\ ScanHoldsRows(NumScanRows)
  /\ iso[ScanTxn] = "READ_UNCOMMITTED" =>
       /\ \A m \in LockModes : tls[ScanTxn][m] = {}
       /\ \A m \in RowModes : rls[ScanTxn][m] = {}
       /\ ~ScanQueued

\* A READ_COMMITTED scan has returned every row and then false, once, while
\* the other transaction holds a lock on the table.
C38_Witness ==
  /\ scan_pc = "ready" /\ iso[ScanTxn] = "READ_COMMITTED"
  /\ returned = "false" /\ scan_ends = 1 /\ iter_ = NumScanRows
  /\ \E m \in LockModes : IsTableLocked(1, m, TableOid)


\* C39: a Next that is called after Next has returned false, with no Init
\* in between, neither throws nor aborts the transaction, under every
\* isolation level, and returns false again.
C39_NextAfterEnd ==
  [][returned = "false" =>
       /\ scan_pc' # "thrown"
       /\ state'[ScanTxn] = state[ScanTxn]
       /\ scan_ends' # scan_ends => returned' = "false"]_vars


\* C40: when Init of the InsertExecutor has returned the transaction holds
\* IX on the table, and whenever Next puts a tuple into the heap the
\* transaction holds IX on the table.
C40_InsertHoldsIX ==
  [][/\ (first_' /\ ~first_) => IsTableLocked(InsertTxn, "IX", TableOid)'
     /\ table_' # table_ => IsTableLocked(InsertTxn, "IX", TableOid)]_vars

=============================================================================
